---- MODULE Spec2Model ----
(***************************************************************************)
(* The commit planner of git-commit-assistant (atomic-commit/.scripts/     *)
(* commit-planner.py): main() loads a list of commit descriptors, builds   *)
(* the dependency graph between them, orders them with Kahn's algorithm    *)
(* (ready queue re-sorted by TYPE_PRIORITY on every iteration) and         *)
(* annotates each with the point at which it can execute.                  *)
(*                                                                         *)
(* Python strings that the code searches or rewrites (scope, subject, file *)
(* paths, file contents) are sequences of one-character strings.  A value  *)
(* that may be None is a sequence of length at most one: None is <<>> and  *)
(* the value v is <<v>>.  Descriptor indices are 0-based as in the code.   *)
(***************************************************************************)
EXTENDS Integers, Sequences, FiniteSets, TLC

VARIABLES
    commits,        \* the loaded suggestions: 0..N-1 -> descriptor
    content,        \* what `git show :<path>` prints, per path; GIT_ERROR when
                    \* the command fails
    verbose,        \* args.verbose (self.verbose of the planner or the analyzer)
    output,         \* args.output of commit-planner.py: "plan", "script" or "json"
    pc,             \* position of main()
    dependencies,   \* create_sequence's local graph: j -> set of i that j depends on
    graph,          \* history: the graph as build_dependency_graph returned it
    in_degree,      \* topological_sort's in_degree
    queue,          \* topological_sort's ready queue
    result,         \* topological_sort's result list
    sequence,       \* create_sequence's return value
    stdout,         \* what main() printed on stdout
    stderr,         \* messages printed on stderr
    exit_code,      \* None while running, else <<status>>
    call,           \* which call of create_sequence on the planner is running
    first,          \* history: what the first call of create_sequence returned
    threshold,      \* SplitAnalyzer.threshold (--threshold)
    json,           \* args.json
    listing_fails,  \* whether `git diff [--cached] --name-only` fails
    changed,        \* what get_changed_files returns, in its enumeration order
    diffs,          \* what `git diff [--cached] <path>` prints, per path;
                    \* GIT_ERROR when the command fails
    self_files,     \* SplitAnalyzer.files
    self_types,     \* SplitAnalyzer.types: type -> files, in insertion order
    self_scopes,    \* SplitAnalyzer.scopes: scope -> files, in insertion order
    self_concerns,  \* SplitAnalyzer.concerns
    cursor,         \* analyze's position in `for file_path in self.files`
    reasons,        \* analyze's local list `reasons`
    verdict         \* None, else <<(should_split, reason, metrics)>> as returned

\* the variables of commit-planner.py that split-analyzer.py has no part in
planner_vars == <<commits, content, output, dependencies, graph, in_degree, queue,
                  result, sequence>>

caller_vars == <<call, first>>

\* the variables of split-analyzer.py
analyzer_vars == <<threshold, json, listing_fails, changed, diffs, self_files,
                   self_types, self_scopes, self_concerns, cursor, reasons, verdict>>

vars == <<commits, content, pc, dependencies, graph, in_degree, queue, result,
          sequence, stdout, stderr, exit_code, call, first, verbose, output, threshold,
          json, listing_fails, changed, diffs, self_files, self_types, self_scopes, self_concerns,
          cursor, reasons, verdict>>

(***************************************************************************)
(* Bounds and input alphabets                                              *)
(***************************************************************************)
MaxCommits == 3

None == <<>>
Some(v) == <<v>>

S_auth == <<"a","u","t","h">>
S_document_auth_flow ==
    <<"d","o","c","u","m","e","n","t"," ","a","u","t","h"," ","f","l","o","w">>
S_update_readme == <<"u","p","d","a","t","e"," ","r","e","a","d","m","e">>
S_empty == <<>>

P_src_auth_py == <<"s","r","c","/","a","u","t","h",".","p","y">>
P_lib_db_ts == <<"l","i","b","/","d","b",".","t","s">>
T_import_lib_db == <<"i","m","p","o","r","t"," ","l","i","b",".","d","b">>
T_from_src_auth == <<"f","r","o","m"," ","s","r","c",".","a","u","t","h">>

Paths == {P_src_auth_py, P_lib_db_ts}

\* The output of a git command that ended with a non-zero status
\* (subprocess.CalledProcessError): no string of characters.
GIT_ERROR == <<"<git error>">>

(***************************************************************************)
(* String helpers: str.replace and the `in` operator on strings            *)
(***************************************************************************)
RECURSIVE Replace(_, _, _)
Replace(s, old, new) ==
    IF Len(s) < Len(old) THEN s
    ELSE IF SubSeq(s, 1, Len(old)) = old
         THEN new \o Replace(SubSeq(s, Len(old) + 1, Len(s)), old, new)
         ELSE <<Head(s)>> \o Replace(Tail(s), old, new)

Contains(hay, needle) ==
    \E k \in 1..(Len(hay) - Len(needle) + 1) :
        SubSeq(hay, k, k + Len(needle) - 1) = needle

Range(s) == {s[k] : k \in 1..Len(s)}

RECURSIVE Ascending(_)
Ascending(S) ==
    IF S = {} THEN <<>>
    ELSE LET m == CHOOSE x \in S : \A y \in S : x <= y
         IN <<m>> \o Ascending(S \ {m})

(***************************************************************************)
(* TYPE_PRIORITY and the sort key of the ready queue                       *)
(***************************************************************************)
TYPE_PRIORITY ==
    [feat |-> 1, fix |-> 2, refactor |-> 3, perf |-> 4, test |-> 5,
     docs |-> 6, style |-> 7, chore |-> 8, ci |-> 9, build |-> 10]

\* the types of the enumeration
COMMIT_TYPES == DOMAIN TYPE_PRIORITY

\* The `type` field of a descriptor that has no 'type' key at all.
MISSING == "<missing>"

\* The 'subject' and the 'files' of a descriptor that has no such key.
NO_SUBJECT == <<"<missing>">>
NO_FILES == <<NO_SUBJECT>>

\* commit.get('subject', '') and commit.get('files', [])
get_subject(commit) == IF commit.subject = NO_SUBJECT THEN <<>> ELSE commit.subject
get_files(commit) == IF commit.files = NO_FILES THEN <<>> ELSE commit.files

\* The orders in which `for x in set(...)` may visit the elements of a set:
\* the order follows the hashes of the strings, which change from run to run.
Orders(S) ==
    {order \in [1..Cardinality(S) -> S] :
        \A a \in 1..Cardinality(S) : \A b \in 1..Cardinality(S) :
            order[a] = order[b] => a = b}

\* Mutant of priority_key: a type outside TYPE_PRIORITY sorts first.
priority_key_unknown_first(cs, x) ==
    IF cs[x].type \in DOMAIN TYPE_PRIORITY THEN TYPE_PRIORITY[cs[x].type] ELSE 0

\* lambda x: TYPE_PRIORITY.get(commits[x]['type'], 99)
priority_key(cs, x) ==
    IF cs[x].type \in DOMAIN TYPE_PRIORITY THEN TYPE_PRIORITY[cs[x].type] ELSE 99

\* Mutant of sort_queue: the queue is popped as it stands, never sorted.
sort_queue_unsorted(cs, q) == q

\* Mutant of sort_queue: sorted by (priority, original index), not stably.
RECURSIVE sort_queue_by_index(_, _)
sort_queue_by_index(cs, q) ==
    IF q = <<>> THEN <<>>
    ELSE LET lo == CHOOSE k \in 1..Len(q) : \A m \in 1..Len(q) :
                      \/ priority_key(cs, q[k]) < priority_key(cs, q[m])
                      \/ priority_key(cs, q[k]) = priority_key(cs, q[m]) /\ q[k] <= q[m]
         IN <<q[lo]>> \o sort_queue_by_index(cs, SubSeq(q, 1, lo - 1) \o SubSeq(q, lo + 1, Len(q)))

\* list.sort(key=...) is stable: equal keys keep their order in the queue
RECURSIVE sort_queue(_, _)
sort_queue(cs, q) ==
    IF q = <<>> THEN <<>>
    ELSE LET lo == CHOOSE k \in 1..Len(q) :
                      /\ \A m \in 1..Len(q) : priority_key(cs, q[k]) <= priority_key(cs, q[m])
                      /\ \A m \in 1..(k - 1) : priority_key(cs, q[m]) # priority_key(cs, q[k])
         IN <<q[lo]>> \o sort_queue(cs, SubSeq(q, 1, lo - 1) \o SubSeq(q, lo + 1, Len(q)))

(***************************************************************************)
(* detect_dependencies / has_import_dependency / build_dependency_graph    *)
(***************************************************************************)
\* self.log(message): print(f"[DEBUG] {message}", file=sys.stderr) if verbose
log(v, message) == IF v THEN <<message>> ELSE <<>>

\* what CommitPlanner.run_git_command(['show', ':' + path]) prints on stderr
run_git_command_stderr(ct, path) ==
    IF ct[path] = GIT_ERROR
    THEN <<[text |-> "Error running git command", args |-> <<path>>]>> ELSE <<>>

\* what it returns: the output of the command, '' when the command fails
run_git_command(ct, path) == IF ct[path] = GIT_ERROR THEN <<>> ELSE ct[path]

source_module(source_file) ==
    Replace(Replace(Replace(Replace(source_file, <<"/">>, <<".">>),
                            <<".","p","y">>, <<>>),
                    <<".","j","s">>, <<>>),
            <<".","t","s">>, <<>>)

has_import_dependency(ct, source_file, target_file) ==
    LET text == run_git_command(ct, target_file)
        m == source_module(source_file)
    IN \/ Contains(text, <<"i","m","p","o","r","t"," ">> \o m)
       \/ Contains(text, <<"f","r","o","m"," ">> \o m)
       \/ Contains(text, <<"r","e","q","u","i","r","e","(","'">> \o m)

\* `commit1.get('scope') in commit2.get('subject', '')` with scope None raises
\* TypeError; the line is reached only when commit1 is feat and commit2 is docs
\* (commit2 being docs, the test rule above it has not returned).
detect_raises(commit1, commit2) ==
    /\ commit1.type = "feat"
    /\ commit2.type = "docs"
    /\ commit1.scope = None

\* Mutant of detect_dependencies: the docs-after-feature rule is missing.
detect_dependencies_without_docs(ct, commit1, commit2) ==
    IF commit1.type # "test" /\ commit2.type = "test" /\ commit1.scope = commit2.scope
    THEN TRUE
    ELSE IF commit1.type = "feat" /\ commit2.type = "fix" /\ commit1.scope = commit2.scope
    THEN TRUE
    ELSE \E file2 \in Range(get_files(commit2)) : \E file1 \in Range(get_files(commit1)) :
            has_import_dependency(ct, file1, file2)

\* The value detect_dependencies returns when it does not raise.
detect_dependencies(ct, commit1, commit2) ==
    IF commit1.type # "test" /\ commit2.type = "test" /\ commit1.scope = commit2.scope
    THEN TRUE
    ELSE IF /\ commit1.type = "feat" /\ commit2.type = "docs"
            /\ commit1.scope # None
            /\ Contains(get_subject(commit2), commit1.scope[1])
    THEN TRUE
    ELSE IF commit1.type = "feat" /\ commit2.type = "fix" /\ commit1.scope = commit2.scope
    THEN TRUE
    ELSE \E file2 \in Range(get_files(commit2)) : \E file1 \in Range(get_files(commit1)) :
            has_import_dependency(ct, file1, file2)

\* commit1['type'] is read first; commit2['type'] is read only when commit1 is
\* not a test (`and` short-circuits, and a test commit1 fails the `== 'feat'`
\* tests of the later rules before commit2 is looked at).  A descriptor without
\* the key raises KeyError.
detect_key_error(commit1, commit2) ==
    \/ commit1.type = MISSING
    \/ commit1.type # "test" /\ commit2.type = MISSING

\* One of the three type/scope rules returns True before the files are
\* looked at.
rule_returns(commit1, commit2) ==
    \/ commit1.type # "test" /\ commit2.type = "test" /\ commit1.scope = commit2.scope
    \/ /\ commit1.type = "feat" /\ commit2.type = "docs"
       /\ commit1.scope # None
       /\ Contains(get_subject(commit2), commit1.scope[1])
    \/ commit1.type = "feat" /\ commit2.type = "fix" /\ commit1.scope = commit2.scope

\* The lines the import loop of detect_dependencies leaves on stderr when
\* set(files1) is visited in order1 and set(files2) in order2:
\* `for file2 in files2: for file1 in files1:` runs `git show :file2` once per
\* pair and stops at the first import found; k counts the pairs.
RECURSIVE import_lines(_, _, _, _)
import_lines(ct, order1, order2, k) ==
    IF k > Len(order1) * Len(order2) THEN <<>>
    ELSE LET file2 == order2[((k - 1) \div Len(order1)) + 1]
             file1 == order1[((k - 1) % Len(order1)) + 1]
         IN run_git_command_stderr(ct, file2)
            \o (IF has_import_dependency(ct, file1, file2) THEN <<>>
                ELSE import_lines(ct, order1, order2, k + 1))

\* What the import loop may leave on stderr for the lists files1 and files2
\* of two descriptors: files1 = set(...) and files2 = set(...) drop repeated
\* files, and each set is visited in one of its orders.
import_stderr(ct, files1, files2) ==
    {import_lines(ct, order1, order2, 1) :
        order1 \in Orders(Range(files1)), order2 \in Orders(Range(files2))}

\* What one call of detect_dependencies that does not raise may leave on
\* stderr: nothing when one of the three rules returns True first.
detect_stderr(ct, commit1, commit2) ==
    IF rule_returns(commit1, commit2) THEN {<<>>}
    ELSE import_stderr(ct, get_files(commit1), get_files(commit2))

\* the calls of detect_dependencies that raise, as (i, j)
raising_calls(cs) ==
    {p \in (DOMAIN cs) \X (DOMAIN cs) :
        /\ p[1] # p[2]
        /\ \/ detect_raises(cs[p[1]], cs[p[2]])
           \/ detect_key_error(cs[p[1]], cs[p[2]])}

\* Whether build_dependency_graph raises: some call of detect_dependencies does.
build_raises(cs) == raising_calls(cs) # {}

\* The exception that leaves build_dependency_graph: that of the first raising
\* call in the order of `for i ...: for j ...:`.
build_exception(cs) ==
    LET p == CHOOSE a \in raising_calls(cs) : \A b \in raising_calls(cs) :
                 a[1] < b[1] \/ (a[1] = b[1] /\ a[2] <= b[2])
    IN IF detect_key_error(cs[p[1]], cs[p[2]]) THEN "KeyError" ELSE "TypeError"

\* One order per list of files: within a run set(files) of the same list is
\* visited in the same order each time detect_dependencies builds it.
IterationOrders(cs) ==
    LET lists == {get_files(cs[i]) : i \in DOMAIN cs}
    IN {it \in [lists -> UNION {Orders(Range(files)) : files \in lists}] :
           \A files \in lists : it[files] \in Orders(Range(files))}

\* What build_dependency_graph leaves on stderr from the call (i, j) on, in
\* the order of `for i ...: for j ...:`, up to the call that raises, when the
\* sets of files are visited in the orders `it`: the git errors of each call
\* and, with --verbose, one line per edge found.
RECURSIVE build_lines_from(_, _, _, _, _, _)
build_lines_from(ct, cs, v, it, i, j) ==
    LET n == Cardinality(DOMAIN cs) IN
    IF i >= n THEN <<>>
    ELSE IF j >= n THEN build_lines_from(ct, cs, v, it, i + 1, 0)
    ELSE IF i = j THEN build_lines_from(ct, cs, v, it, i, j + 1)
    ELSE IF detect_raises(cs[i], cs[j]) \/ detect_key_error(cs[i], cs[j]) THEN <<>>
    ELSE (IF rule_returns(cs[i], cs[j]) THEN <<>>
          ELSE import_lines(ct, it[get_files(cs[i])], it[get_files(cs[j])], 1))
         \o log(v /\ detect_dependencies(ct, cs[i], cs[j]),
                [text |-> "[DEBUG] Dependency", args |-> <<j + 1, i + 1>>])
         \o build_lines_from(ct, cs, v, it, i, j + 1)

\* What build_dependency_graph may leave on stderr from the call (i, j) on:
\* one sequence of lines per choice of iteration orders.
build_stderr_from(ct, cs, v, i, j) ==
    {build_lines_from(ct, cs, v, it, i, j) : it \in IterationOrders(cs)}

build_stderr(ct, cs, v) == build_stderr_from(ct, cs, v, 0, 0)

\* Mutant of build_dependency_graph: of two opposite edges only the one found
\* first (smaller i) is kept.
build_dependency_graph_first_wins(ct, cs) ==
    [j \in DOMAIN cs |->
        {i \in DOMAIN cs :
            /\ i # j /\ detect_dependencies(ct, cs[i], cs[j])
            /\ ~(j < i /\ detect_dependencies(ct, cs[j], cs[i]))}]

\* The graph build_dependency_graph returns: graph[j] holds i when j depends on i.
build_dependency_graph(ct, cs) ==
    [j \in DOMAIN cs |->
        {i \in DOMAIN cs : i # j /\ detect_dependencies(ct, cs[i], cs[j])}]

(***************************************************************************)
(* topological_sort, one loop iteration at a time                          *)
(***************************************************************************)
\* queue_list.sort(key=...): the key reads commits[x]['type'] of every queued x
sort_raises(cs, q) == \E k \in 1..Len(q) : cs[q[k]].type = MISSING

\* Mutant of newly_ready: every dependent is queued, whatever its in_degree.
newly_ready_unchecked(deps, indeg, node) ==
    Ascending({o \in DOMAIN deps : node \in deps[o]})

\* The nodes whose in_degree reaches zero when `node` is removed, in the
\* order `for other_node in range(len(commits))` appends them.
newly_ready(deps, indeg, node) ==
    Ascending({o \in DOMAIN deps : node \in deps[o] /\ indeg[o] - 1 = 0})

\* Mutant of has_cycle: the comparison is `>`.
has_cycle_greater(cs, res) == Len(res) > Cardinality(DOMAIN cs)

\* `if len(result) != len(commits)`
has_cycle(cs, res) == Len(res) # Cardinality(DOMAIN cs)

\* Mutant of circular_message: the unvisited indices are printed too.
circular_message_with_indices(cs, res) ==
    [text |-> "Error: Circular dependency detected",
     args |-> Ascending(DOMAIN cs \ Range(res))]

\* print("Error: Circular dependency detected", file=sys.stderr)
circular_message(cs, res) ==
    [text |-> "Error: Circular dependency detected", args |-> <<>>]

(***************************************************************************)
(* create_sequence's annotation loop                                       *)
(***************************************************************************)
index(seq, x) == CHOOSE k \in 1..Len(seq) : seq[k] = x /\ \A m \in 1..(k - 1) : seq[m] # x

Min(S) == CHOOSE x \in S : \A y \in S : x <= y

can_execute(deps, order, commit_idx) ==
    IF deps[commit_idx] = {} THEN <<"now">>
    ELSE <<"after commit", Min({index(order, d) : d \in deps[commit_idx]})>>

create_sequence(cs, deps, order) ==
    [idx \in 1..Len(order) |->
        [commit |-> cs[order[idx]],
         order |-> idx,
         commit_id |-> order[idx] + 1,
         original_id |-> order[idx],
         can_execute |-> can_execute(deps, order, order[idx])]]

(***************************************************************************)
(* Inputs                                                                  *)
(***************************************************************************)
Scopes == {None, Some(S_auth)}

\* Descriptors without files: the graph comes from the type/scope rules alone.
RuleDescriptors ==
    {d \in [type : COMMIT_TYPES, scope : Scopes,
            subject : {S_document_auth_flow, S_update_readme}, files : {<<>>}] :
        d.type # "docs" => d.subject = S_update_readme}

\* Descriptors with one file each, whose contents may import one another.
ImportDescriptors ==
    {d \in [type : {"feat", "test", "docs", "chore"}, scope : Scopes,
            subject : {S_update_readme},
            files : {<<P_src_auth_py>>, <<P_lib_db_ts>>}] :
        d.type \in {"docs", "chore"} => d.scope = None}

\* Descriptors as the suggestions file may hold them: load_suggestions checks
\* neither that 'type' is there nor that it is one of the enumeration.
MalformedDescriptors ==
    [type : {"feat", "fix", "test", "docs", "wip", MISSING}, scope : Scopes,
     subject : {S_update_readme}, files : {<<>>}]

\* Descriptors that lack 'subject' or 'files': load_suggestions checks for
\* neither key.
KeylessDescriptors ==
    [type : {"feat", "docs"}, scope : Scopes,
     subject : {S_update_readme, NO_SUBJECT}, files : {<<>>, NO_FILES}]

\* Descriptors that name several files, or one file twice.
SeveralFilesDescriptors ==
    [type : {"chore"}, scope : {None}, subject : {S_update_readme},
     files : {<<P_src_auth_py, P_src_auth_py>>, <<P_lib_db_ts, P_src_auth_py>>,
              <<P_src_auth_py, P_lib_db_ts>>, <<P_lib_db_ts>>}]

NoContent == [p \in Paths |-> S_empty]

Contents ==
    {ct \in [Paths -> {S_empty, T_import_lib_db, T_from_src_auth}] :
        /\ ct[P_src_auth_py] \in {S_empty, T_import_lib_db}
        /\ ct[P_lib_db_ts] \in {S_empty, T_from_src_auth}}

\* The same, and paths that `git show` fails on (not in the index, or no
\* repository at all).
GitContents ==
    {ct \in [Paths -> {S_empty, T_import_lib_db, T_from_src_auth, GIT_ERROR}] :
        /\ ct[P_src_auth_py] \in {S_empty, T_import_lib_db, GIT_ERROR}
        /\ ct[P_lib_db_ts] \in {S_empty, T_from_src_auth, GIT_ERROR}}

\* The values of split-analyzer.py's variables while commit-planner.py runs.
AnalyzerIdle ==
    /\ threshold = 10
    /\ json = FALSE
    /\ listing_fails = FALSE
    /\ changed = <<>>
    /\ diffs = <<>>
    /\ self_files = <<>>
    /\ self_types = <<>>
    /\ self_scopes = <<>>
    /\ self_concerns = <<>>
    /\ cursor = 0
    /\ reasons = <<>>
    /\ verdict = None

Lists(D) == UNION {[0..(n - 1) -> D] : n \in 0..MaxCommits}

N == Cardinality(DOMAIN commits)

Init ==
    /\ \/ commits \in Lists(RuleDescriptors) /\ content = NoContent
       \/ commits \in Lists(ImportDescriptors) /\ content \in Contents
    /\ pc = "main"
    /\ dependencies = [n \in DOMAIN commits |-> {}]
    /\ graph = [n \in DOMAIN commits |-> {}]
    /\ in_degree = [n \in DOMAIN commits |-> 0]
    /\ queue = <<>>
    /\ result = <<>>
    /\ sequence = <<>>
    /\ stdout = <<>>
    /\ stderr = <<>>
    /\ exit_code = None
    /\ call = 1
    /\ first = None
    /\ verbose = FALSE
    /\ output = "plan"
    /\ AnalyzerIdle

(***************************************************************************)
(* Actions                                                                 *)
(***************************************************************************)
Exit(code, msg) ==
    /\ pc' = "exit"
    /\ exit_code' = Some(code)
    /\ stderr' = Append(stderr, msg)

\* main(): `if not commits: ... sys.exit(1)`, else planner.create_sequence(commits)
Main ==
    /\ pc = "main"
    /\ IF N = 0
       THEN Exit(1, [text |-> "No commit suggestions provided", args |-> <<>>])
       ELSE pc' = "build" /\ UNCHANGED <<exit_code, stderr>>
    /\ UNCHANGED <<commits, content, dependencies, graph, in_degree, queue, result,
                   sequence, stdout>>
    /\ UNCHANGED <<caller_vars, analyzer_vars, verbose, output>>

\* create_sequence up to `dependencies = self.build_dependency_graph(commits)`:
\* the debug line of create_sequence, then what the calls of
\* detect_dependencies print, in one of the orders their sets of files may be
\* visited in; an uncaught exception ends the interpreter with a traceback and
\* status 1
Build ==
    /\ pc = "build"
    /\ \E lines \in build_stderr(content, commits, verbose) :
       LET printed == log(verbose, [text |-> "[DEBUG] Planning sequence for commits",
                                    args |-> <<N>>])
                       \o lines
       IN IF build_raises(commits)
          THEN /\ pc' = "exit"
               /\ exit_code' = Some(1)
               /\ stderr' = stderr \o printed
                                \o <<[text |-> build_exception(commits), args |-> <<>>]>>
               /\ UNCHANGED <<dependencies, graph>>
          ELSE /\ dependencies' = build_dependency_graph(content, commits)
               /\ graph' = dependencies'
               /\ pc' = "sort_init"
               /\ stderr' = stderr \o printed
               /\ UNCHANGED exit_code
    /\ UNCHANGED <<commits, content, in_degree, queue, result, sequence, stdout>>
    /\ UNCHANGED <<caller_vars, analyzer_vars, verbose, output>>

\* Mutant of SortInit: `result` is kept on the planner, not made afresh.
SortInit_keeps_result ==
    /\ pc = "sort_init"
    /\ in_degree' = [node \in DOMAIN commits |-> Cardinality(dependencies[node])]
    /\ queue' = Ascending({node \in DOMAIN commits : Cardinality(dependencies[node]) = 0})
    /\ result' = result
    /\ pc' = "sort_loop"
    /\ UNCHANGED <<commits, content, dependencies, graph, sequence, stdout, stderr,
                   exit_code>>
    /\ UNCHANGED <<caller_vars, analyzer_vars, verbose, output>>

\* topological_sort: in_degree and the initial queue
SortInit ==
    /\ pc = "sort_init"
    /\ in_degree' = [node \in DOMAIN commits |-> Cardinality(dependencies[node])]
    /\ queue' = Ascending({node \in DOMAIN commits : Cardinality(dependencies[node]) = 0})
    /\ result' = <<>>
    /\ pc' = "sort_loop"
    /\ UNCHANGED <<commits, content, dependencies, graph, sequence, stdout, stderr,
                   exit_code>>
    /\ UNCHANGED <<caller_vars, analyzer_vars, verbose, output>>

\* Mutant of SortStep: the emitted node stays at the head of the queue.
SortStep_without_pop ==
    /\ pc = "sort_loop"
    /\ queue # <<>>
    /\ LET queue_list == sort_queue(commits, queue)
           node == Head(queue_list)
       IN /\ result' = Append(result, node)
          /\ dependencies' = [o \in DOMAIN commits |-> dependencies[o] \ {node}]
          /\ in_degree' = [o \in DOMAIN commits |->
                             IF node \in dependencies[o] THEN in_degree[o] - 1
                             ELSE in_degree[o]]
          /\ queue' = queue_list \o newly_ready(dependencies, in_degree, node)
          /\ UNCHANGED <<pc, stderr, exit_code>>
    /\ UNCHANGED <<commits, content, graph, sequence, stdout>>
    /\ UNCHANGED <<caller_vars, analyzer_vars, verbose, output>>

\* one iteration of `while queue:`; a KeyError raised by the sort key is
\* uncaught and ends the interpreter with a traceback and status 1
SortStep ==
    /\ pc = "sort_loop"
    /\ queue # <<>>
    /\ IF sort_raises(commits, queue)
       THEN /\ Exit(1, [text |-> "KeyError", args |-> <<>>])
            /\ UNCHANGED <<result, dependencies, in_degree, queue>>
       ELSE LET queue_list == sort_queue(commits, queue)
                node == Head(queue_list)
            IN /\ result' = Append(result, node)
               /\ dependencies' = [o \in DOMAIN commits |-> dependencies[o] \ {node}]
               /\ in_degree' = [o \in DOMAIN commits |->
                                  IF node \in dependencies[o] THEN in_degree[o] - 1
                                  ELSE in_degree[o]]
               /\ queue' = Tail(queue_list) \o newly_ready(dependencies, in_degree, node)
               /\ UNCHANGED <<pc, stderr, exit_code>>
    /\ UNCHANGED <<commits, content, graph, sequence, stdout>>
    /\ UNCHANGED <<caller_vars, analyzer_vars, verbose, output>>

\* the loop has ended: the cycle check, then back in create_sequence
SortCheck ==
    /\ pc = "sort_loop"
    /\ queue = <<>>
    /\ IF has_cycle(commits, result)
       THEN Exit(1, circular_message(commits, result))
       ELSE pc' = "annotate" /\ UNCHANGED <<exit_code, stderr>>
    /\ UNCHANGED <<commits, content, dependencies, graph, in_degree, queue, result,
                   sequence, stdout>>
    /\ UNCHANGED <<caller_vars, analyzer_vars, verbose, output>>

\* Formatting the sequence raises KeyError: every format reads c['files'] of
\* each descriptor (the summary of the json format, format_plan and
\* format_script), format_plan and format_script also commit['subject'].
\* (commit['type'] has been read by topological_sort before.)
output_raises(cs, format) ==
    \/ \E i \in DOMAIN cs : cs[i].files = NO_FILES
    \/ format # "json" /\ \E i \in DOMAIN cs : cs[i].subject = NO_SUBJECT

\* create_sequence's loop over `order`, then main() formats the sequence as
\* args.output says, prints it and exits 0; a KeyError while formatting is
\* uncaught and ends the interpreter with a traceback and status 1, nothing
\* printed
Finish ==
    /\ pc = "annotate"
    /\ sequence' = create_sequence(commits, dependencies, result)
    /\ IF output_raises(commits, output)
       THEN /\ Exit(1, [text |-> "KeyError", args |-> <<>>])
            /\ UNCHANGED stdout
       ELSE /\ stdout' = sequence'
            /\ pc' = "exit"
            /\ exit_code' = Some(0)
            /\ UNCHANGED stderr
    /\ UNCHANGED <<commits, content, dependencies, graph, in_degree, queue, result>>
    /\ UNCHANGED <<caller_vars, analyzer_vars, verbose, output>>

Next == Main \/ Build \/ SortInit \/ SortStep \/ SortCheck \/ Finish

Spec == Init /\ [][Next]_vars

\* Descriptors whose lists give every shape of graph the sequencer meets:
\* edges of the test rule, edges of imports, and cycles of mutual imports.
LiveDescriptors == {d \in ImportDescriptors : d.type \in {"feat", "test"}}

\* The planner at the call of topological_sort: build_dependency_graph has
\* returned the graph of the list.
InitLive ==
    /\ commits \in Lists(LiveDescriptors)
    /\ content \in Contents
    /\ N > 0
    /\ pc = "sort_init"
    /\ dependencies = build_dependency_graph(content, commits)
    /\ graph = dependencies
    /\ in_degree = [n \in DOMAIN commits |-> 0]
    /\ queue = <<>>
    /\ result = <<>>
    /\ sequence = <<>>
    /\ stdout = <<>>
    /\ stderr = <<>>
    /\ exit_code = None
    /\ call = 1
    /\ first = None
    /\ verbose = FALSE
    /\ output = "plan"
    /\ AnalyzerIdle

NextLive == SortInit \/ SortStep \/ SortCheck \/ Finish

\* topological_sort and the rest of main() run sequentially until the exit:
\* a step that can be taken is taken.
SpecLive == InitLive /\ [][NextLive]_vars /\ WF_vars(NextLive)

(***************************************************************************)
(* The planner as a library: any list the suggestions file may hold, and a *)
(* caller that may call create_sequence a second time on the same          *)
(* CommitPlanner with the same list.                                       *)
(***************************************************************************)
InitCalls ==
    /\ \/ commits \in Lists(MalformedDescriptors) /\ content = NoContent
       \/ commits \in Lists(ImportDescriptors) /\ content \in Contents
    /\ pc = "main"
    /\ dependencies = [n \in DOMAIN commits |-> {}]
    /\ graph = [n \in DOMAIN commits |-> {}]
    /\ in_degree = [n \in DOMAIN commits |-> 0]
    /\ queue = <<>>
    /\ result = <<>>
    /\ sequence = <<>>
    /\ stdout = <<>>
    /\ stderr = <<>>
    /\ exit_code = None
    /\ call = 1
    /\ first = None
    /\ verbose = FALSE
    /\ output = "plan"
    /\ AnalyzerIdle

\* The first call of create_sequence returns its sequence and the caller calls
\* it again: build_dependency_graph and topological_sort start over with the
\* locals they create themselves; nothing else is reset.
CallAgain ==
    /\ pc = "annotate"
    /\ call = 1
    /\ sequence' = create_sequence(commits, dependencies, result)
    /\ first' = Some([graph |-> graph, order |-> result, sequence |-> sequence'])
    /\ call' = 2
    /\ pc' = "build"
    /\ UNCHANGED <<commits, content, dependencies, graph, in_degree, queue, result,
                   stdout, stderr, exit_code>>
    /\ UNCHANGED <<analyzer_vars, verbose, output>>

NextCalls == Main \/ Build \/ SortInit \/ SortStep \/ SortCheck \/ Finish \/ CallAgain

SpecCalls == InitCalls /\ [][NextCalls]_vars

(***************************************************************************)
(* main() from its first line: the command line is parsed and the          *)
(* suggestions are loaded before anything is planned.  `commits` holds the *)
(* suggestions of the input, which main() gets to see only if the          *)
(* arguments are accepted and the input can be read.                       *)
(***************************************************************************)
InitMain ==
    /\ \/ commits \in Lists(MalformedDescriptors) /\ content = NoContent
       \/ commits \in Lists(KeylessDescriptors) /\ content = NoContent
       \/ commits \in Lists(LiveDescriptors) /\ content \in GitContents
       \/ commits \in Lists(SeveralFilesDescriptors) /\ content \in GitContents
    /\ pc = "start"
    /\ dependencies = [n \in DOMAIN commits |-> {}]
    /\ graph = [n \in DOMAIN commits |-> {}]
    /\ in_degree = [n \in DOMAIN commits |-> 0]
    /\ queue = <<>>
    /\ result = <<>>
    /\ sequence = <<>>
    /\ stdout = <<>>
    /\ stderr = <<>>
    /\ exit_code = None
    /\ call = 1
    /\ first = None
    /\ verbose = FALSE
    /\ output = "plan"
    /\ AnalyzerIdle

\* the choices of --output
OutputFormats == {"plan", "script", "json"}

\* what may happen before main() holds the suggestions
Outcomes == {"help", "usage", "unreadable", "loaded"}

\* Mutant of ParseAndLoad: an input that cannot be read ends with status 2.
ParseAndLoad_unreadable_is_2 ==
    /\ pc = "start"
    /\ \E outcome \in Outcomes :
          CASE outcome = "help" ->
                   /\ stdout' = <<[text |-> "usage", args |-> <<>>]>>
                   /\ pc' = "exit"
                   /\ exit_code' = Some(0)
                   /\ UNCHANGED <<stderr, verbose, output>>
            [] outcome = "usage" ->
                   /\ Exit(2, [text |-> "usage", args |-> <<>>])
                   /\ UNCHANGED <<stdout, verbose, output>>
            [] outcome = "unreadable" ->
                   /\ Exit(2, [text |-> "Error loading suggestions", args |-> <<>>])
                   /\ verbose' \in BOOLEAN
                   /\ output' \in OutputFormats
                   /\ UNCHANGED stdout
            [] outcome = "loaded" ->
                   /\ pc' = "main"
                   /\ verbose' \in BOOLEAN
                   /\ output' \in OutputFormats
                   /\ UNCHANGED <<exit_code, stderr, stdout>>
    /\ UNCHANGED <<commits, content, dependencies, graph, in_degree, queue, result,
                   sequence>>
    /\ UNCHANGED <<caller_vars, analyzer_vars>>

\* parser.parse_args() prints the usage text on stdout and ends with status 0
\* on -h/--help, and ends with status 2 on arguments it does not accept (an
\* --output outside its choices); args.output is one of its choices;
\* CommitPlanner(verbose=args.verbose);
\* load_suggestions prints "Error loading suggestions" and exits 1 on any
\* exception (no file, no JSON, no object)
ParseAndLoad ==
    /\ pc = "start"
    /\ \E outcome \in Outcomes :
          CASE outcome = "help" ->
                   /\ stdout' = <<[text |-> "usage", args |-> <<>>]>>
                   /\ pc' = "exit"
                   /\ exit_code' = Some(0)
                   /\ UNCHANGED <<stderr, verbose, output>>
            [] outcome = "usage" ->
                   /\ Exit(2, [text |-> "usage", args |-> <<>>])
                   /\ UNCHANGED <<stdout, verbose, output>>
            [] outcome = "unreadable" ->
                   /\ Exit(1, [text |-> "Error loading suggestions", args |-> <<>>])
                   /\ verbose' \in BOOLEAN
                   /\ output' \in OutputFormats
                   /\ UNCHANGED stdout
            [] outcome = "loaded" ->
                   /\ pc' = "main"
                   /\ verbose' \in BOOLEAN
                   /\ output' \in OutputFormats
                   /\ UNCHANGED <<exit_code, stderr, stdout>>
    /\ UNCHANGED <<commits, content, dependencies, graph, in_degree, queue, result,
                   sequence>>
    /\ UNCHANGED <<caller_vars, analyzer_vars>>

NextMain ==
    ParseAndLoad \/ Main \/ Build \/ SortInit \/ SortStep \/ SortCheck \/ Finish

SpecMain == InitMain /\ [][NextMain]_vars

(***************************************************************************)
(* split-analyzer.py: SplitAnalyzer.analyze decides whether the changed    *)
(* files should be split into several commits; main() prints the verdict   *)
(* and exits 0 (split) or 1 (atomic).  File paths, diffs and scopes are    *)
(* sequences of one-character strings; a dict that the code iterates       *)
(* (self.types, self.scopes) is the sequence of its entries in insertion   *)
(* order, each entry a record [key, files].                                *)
(***************************************************************************)
MaxFiles == 3

\* str.endswith, str.startswith
EndsWith(s, suffix) ==
    Len(s) >= Len(suffix) /\ SubSeq(s, Len(s) - Len(suffix) + 1, Len(s)) = suffix

StartsWith(s, prefix) ==
    Len(s) >= Len(prefix) /\ SubSeq(s, 1, Len(prefix)) = prefix

\* str.split(c) for a separator c of one character
RECURSIVE Split(_, _)
Split(s, c) ==
    IF \E k \in 1..Len(s) : s[k] = c
    THEN LET k == CHOOSE n \in 1..Len(s) : s[n] = c /\ \A m \in 1..(n - 1) : s[m] # c
         IN <<SubSeq(s, 1, k - 1)>> \o Split(SubSeq(s, k + 1, Len(s)), c)
    ELSE <<s>>

\* ' '.join(lines)
RECURSIVE JoinSpace(_)
JoinSpace(lines) ==
    IF lines = <<>> THEN <<>>
    ELSE IF Len(lines) = 1 THEN lines[1]
    ELSE lines[1] \o <<" ">> \o JoinSpace(Tail(lines))

\* The cased characters among those a string of this module can hold
\* (U+0000 to U+00FF): A-Z and the capital letters of Latin-1.
UpperCase ==
    <<"A","B","C","D","E","F","G","H","I","J","K","L","M","N","O","P","Q","R","S","T","U","V","W","X","Y","Z",
      "À","Á","Â","Ã","Ä","Å","Æ","Ç","È","É","Ê","Ë","Ì","Í","Î","Ï","Ð","Ñ","Ò","Ó","Ô","Õ","Ö","Ø","Ù","Ú","Û","Ü","Ý","Þ">>
LowerCase ==
    <<"a","b","c","d","e","f","g","h","i","j","k","l","m","n","o","p","q","r","s","t","u","v","w","x","y","z",
      "à","á","â","ã","ä","å","æ","ç","è","é","ê","ë","ì","í","î","ï","ð","ñ","ò","ó","ô","õ","ö","ø","ù","ú","û","ü","ý","þ">>

\* str.lower
Lower(s) ==
    [k \in 1..Len(s) |->
        IF \E n \in DOMAIN UpperCase : UpperCase[n] = s[k]
        THEN LowerCase[CHOOSE n \in DOMAIN UpperCase : UpperCase[n] = s[k]]
        ELSE s[k]]

\* [line for line in lines if keep(line)], here as the kept indices in order
RECURSIVE SelectLines(_, _, _)
SelectLines(lines, sign, header) ==
    IF lines = <<>> THEN <<>>
    ELSE IF StartsWith(Head(lines), sign) /\ ~StartsWith(Head(lines), header)
         THEN <<Head(lines)>> \o SelectLines(Tail(lines), sign, header)
         ELSE SelectLines(Tail(lines), sign, header)

AnyIn(patterns, text) == \E p \in patterns : Contains(text, p)
AnyEndsWith(text, suffixes) == \E x \in suffixes : EndsWith(text, x)

DOC_EXTENSIONS ==
    {<<".","m","d">>, <<".","t","x","t">>, <<".","r","s","t">>,
     <<".","a","d","o","c">>}

TEST_PATTERNS ==
    {<<"t","e","s","t","/">>, <<"t","e","s","t","s","/">>,
     <<"s","p","e","c","/">>, <<"_","_","t","e","s","t","s","_","_">>,
     <<".","t","e","s","t",".">>, <<".","s","p","e","c",".">>}

CI_PATTERNS ==
    {<<".","g","i","t","h","u","b","/">>,
     <<".","g","i","t","l","a","b","-","c","i">>,
     <<"j","e","n","k","i","n","s">>,
     <<".","c","i","r","c","l","e","c","i">>}

BUILD_FILES ==
    {<<"p","a","c","k","a","g","e",".","j","s","o","n">>,
     <<"p","o","m",".","x","m","l">>,
     <<"b","u","i","l","d",".","g","r","a","d","l","e">>,
     <<"M","a","k","e","f","i","l","e">>,
     <<"C","M","a","k","e","L","i","s","t","s",".","t","x","t">>}

DECLARATION_KEYWORDS ==
    {<<"f","u","n","c","t","i","o","n"," ">>, <<"c","l","a","s","s"," ">>,
     <<"d","e","f"," ">>, <<"c","o","n","s","t"," ">>, <<"l","e","t"," ">>,
     <<"v","a","r"," ">>}

ADDITION_KEYWORDS ==
    {<<"n","e","w"," ">>, <<"a","d","d">>,
     <<"i","m","p","l","e","m","e","n","t">>, <<"c","r","e","a","t","e">>}

FIX_KEYWORDS ==
    {<<"f","i","x">>, <<"b","u","g">>, <<"e","r","r","o","r">>,
     <<"i","s","s","u","e">>, <<"n","u","l","l">>,
     <<"u","n","d","e","f","i","n","e","d">>}

REFACTOR_KEYWORDS ==
    {<<"r","e","f","a","c","t","o","r">>, <<"r","e","n","a","m","e">>,
     <<"m","o","v","e">>, <<"e","x","t","r","a","c","t">>}

PERF_KEYWORDS ==
    {<<"p","e","r","f","o","r","m","a","n","c","e">>,
     <<"o","p","t","i","m","i","z","e">>, <<"c","a","c","h","e">>,
     <<"m","e","m","o","i","z","e">>}

\* the added (removed) lines of a diff, its +++ (---) header lines left out
added_lines(diff) == SelectLines(Split(diff, "\n"), <<"+">>, <<"+","+","+">>)
removed_lines(diff) == SelectLines(Split(diff, "\n"), <<"-">>, <<"-","-","-">>)

\* Mutant of detect_type_from_diff: the test rule before the docs rule.
detect_type_from_diff_test_first(file_path, diff) ==
    LET added == added_lines(diff)
        removed == removed_lines(diff)
        text == JoinSpace(added)
    IN IF AnyIn(TEST_PATTERNS, file_path) THEN "test"
       ELSE IF AnyEndsWith(file_path, DOC_EXTENSIONS) THEN "docs"
       ELSE IF AnyIn(CI_PATTERNS, file_path) THEN "ci"
       ELSE IF AnyEndsWith(file_path, BUILD_FILES) THEN "build"
       ELSE IF diff = <<>> THEN "chore"
       ELSE IF AnyIn(DECLARATION_KEYWORDS, text) /\ AnyIn(ADDITION_KEYWORDS, text)
            THEN "feat"
       ELSE IF AnyIn(FIX_KEYWORDS, Lower(text)) THEN "fix"
       ELSE IF AnyIn(REFACTOR_KEYWORDS, Lower(text)) THEN "refactor"
       ELSE IF AnyIn(PERF_KEYWORDS, Lower(text)) THEN "perf"
       ELSE IF Len(added) = Len(removed) THEN "style"
       ELSE IF Len(added) > Len(removed) * 2 THEN "feat"
       ELSE "chore"

detect_type_from_diff(file_path, diff) ==
    LET added == added_lines(diff)
        removed == removed_lines(diff)
        text == JoinSpace(added)
    IN IF AnyEndsWith(file_path, DOC_EXTENSIONS) THEN "docs"
       ELSE IF AnyIn(TEST_PATTERNS, file_path) THEN "test"
       ELSE IF AnyIn(CI_PATTERNS, file_path) THEN "ci"
       ELSE IF AnyEndsWith(file_path, BUILD_FILES) THEN "build"
       ELSE IF diff = <<>> THEN "chore"
       ELSE IF AnyIn(DECLARATION_KEYWORDS, text) /\ AnyIn(ADDITION_KEYWORDS, text)
            THEN "feat"
       ELSE IF AnyIn(FIX_KEYWORDS, Lower(text)) THEN "fix"
       ELSE IF AnyIn(REFACTOR_KEYWORDS, Lower(text)) THEN "refactor"
       ELSE IF AnyIn(PERF_KEYWORDS, Lower(text)) THEN "perf"
       ELSE IF Len(added) = Len(removed) THEN "style"
       ELSE IF Len(added) > Len(removed) * 2 THEN "feat"
       ELSE "chore"


SKIP_PREFIXES ==
    {<<"s","r","c">>, <<"l","i","b">>, <<"a","p","p">>,
     <<"p","a","c","k","a","g","e","s">>, <<"t","e","s","t","s">>,
     <<"t","e","s","t">>}

S_root == <<"r","o","o","t">>

\* Mutant of first_scope: the part as it is, extension included.
RECURSIVE first_scope_with_extension(_)
first_scope_with_extension(parts) ==
    IF parts = <<>> THEN S_root
    ELSE IF Head(parts) \notin SKIP_PREFIXES /\ Head(parts) # <<".">>
            /\ Head(parts) # <<".",".">>
         THEN Head(parts)
         ELSE first_scope_with_extension(Tail(parts))

\* the first part of the path that is no skipped prefix, cut at its first dot
RECURSIVE first_scope(_)
first_scope(parts) ==
    IF parts = <<>> THEN S_root
    ELSE IF Head(parts) \notin SKIP_PREFIXES /\ Head(parts) # <<".">>
            /\ Head(parts) # <<".",".">>
         THEN Split(Head(parts), ".")[1]
         ELSE first_scope(Tail(parts))

extract_scope_from_path(file_path) == first_scope(Split(file_path, "/"))

(***************************************************************************)
(* The changed files of the working tree and their diffs                   *)
(***************************************************************************)

F_readme == <<"R","E","A","D","M","E",".","m","d">>
F_login == <<"s","r","c","/","a","u","t","h","/","l","o","g","i","n",".","t","s">>
F_login_test == <<"s","r","c","/","a","u","t","h","/","l","o","g","i","n",".","t","e","s","t",".","t","s">>
F_auth_a == <<"s","r","c","/","a","u","t","h","/","a",".","t","s">>
F_auth_b == <<"s","r","c","/","a","u","t","h","/","b",".","t","s">>
F_api_x == <<"s","r","c","/","a","p","i","/","x",".","p","y">>
F_api_y == <<"s","r","c","/","a","p","i","/","y",".","p","y">>
F_api_f == <<"s","r","c","/","a","p","i","/","f",".","p","y">>
F_api_p == <<"s","r","c","/","a","p","i","/","p",".","p","y">>
F_ci == <<".","g","i","t","h","u","b","/","c","i",".","y","m","l">>
F_package == <<"p","a","c","k","a","g","e",".","j","s","o","n">>
F_lib_db == <<"l","i","b","/","d","b",".","p","y">>

D_login == <<"+","l","e","t"," ","a"," ","="," ","n","e","w"," ","b">>
D_login_test == <<"+","i","t">>
D_auth_b == <<"+","a","\n","-","b","\n","-","c">>
D_api_x == <<"+","R","e","n","a","m","e"," ","a">>
D_api_y == <<"-","-","-"," ","a","\n","+","+","+"," ","b","\n","-","a","\n","+","b">>
D_api_f == <<"+","F","i","x">>
D_api_p == <<"+","c","a","c","h","e">>
D_ci == <<"+","a">>
D_package == <<"+","a">>
D_lib_db == <<"+","a","\n","+","b">>

ChangedPaths ==
    {F_readme, F_login, F_login_test, F_auth_a, F_auth_b, F_api_x,
     F_api_y, F_api_f, F_api_p, F_ci, F_package, F_lib_db}

\* what `git diff --cached <path>` (or, that being empty, `git diff <path>`)
\* prints, per path
Diffs ==
    (F_readme :> <<>>) @@
    (F_login :> D_login) @@
    (F_login_test :> D_login_test) @@
    (F_auth_a :> <<>>) @@
    (F_auth_b :> D_auth_b) @@
    (F_api_x :> D_api_x) @@
    (F_api_y :> D_api_y) @@
    (F_api_f :> D_api_f) @@
    (F_api_p :> D_api_p) @@
    (F_ci :> D_ci) @@
    (F_package :> D_package) @@
    (F_lib_db :> D_lib_db)

\* --threshold: the default and some values around the sizes of the change sets
Thresholds == {-1, 0, 1, 10}

\* the lists get_changed_files may return: list(set) enumerates the changed
\* paths once each, in an order the code does not choose
Enumerations ==
    {s \in UNION {[1..n -> ChangedPaths] : n \in 0..MaxFiles} :
        \A a \in DOMAIN s : \A b \in DOMAIN s : s[a] = s[b] => a = b}

(***************************************************************************)
(* self.types / self.scopes, detect_mixed_concerns and the checks of       *)
(* analyze                                                                 *)
(***************************************************************************)
keys(d) == [n \in 1..Len(d) |-> d[n].key]

\* Mutant of dict_append: d[key] = [file_path], the last file of a key only.
dict_append_replacing(d, key, file_path) ==
    IF \E n \in 1..Len(d) : d[n].key = key
    THEN [n \in 1..Len(d) |->
             IF d[n].key = key
             THEN [key |-> key, files |-> <<file_path>>]
             ELSE d[n]]
    ELSE Append(d, [key |-> key, files |-> <<file_path>>])

\* d[key].append(file_path) on a defaultdict(list)
dict_append(d, key, file_path) ==
    IF \E n \in 1..Len(d) : d[n].key = key
    THEN [n \in 1..Len(d) |->
             IF d[n].key = key
             THEN [key |-> key, files |-> Append(d[n].files, file_path)]
             ELSE d[n]]
    ELSE Append(d, [key |-> key, files |-> <<file_path>>])

\* {k: len(files) for k, files in d.items()}
counts(d) == [n \in 1..Len(d) |-> [key |-> d[n].key, count |-> Len(d[n].files)]]

\* set(self.scopes[scope] for scope in self.scopes if ...) raises TypeError
\* (a list is unhashable) as soon as the generator yields one element
mixed_raises(types, scopes) ==
    /\ "test" \in Range(keys(types))
    /\ \/ \E n \in 1..Len(scopes) : Contains(scopes[n].key, <<"t","e","s","t">>)
       \/ \E n \in 1..Len(scopes) : ~Contains(scopes[n].key, <<"t","e","s","t">>)

\* The list detect_mixed_concerns returns when it does not raise; with a test
\* type and no scope at all both sets are empty and nothing is appended.
detect_mixed_concerns(types) ==
    (IF "feat" \in Range(keys(types)) /\ "refactor" \in Range(keys(types))
     THEN <<"Feature implementation mixed with refactoring">> ELSE <<>>)
    \o (IF "feat" \in Range(keys(types)) /\ "style" \in Range(keys(types))
        THEN <<"Feature implementation mixed with style changes">> ELSE <<>>)

\* Mutant of too_many_files: a threshold below 1 counts as the default 10.
too_many_files_clamped(files, limit) ==
    Len(files) > (IF limit < 1 THEN 10 ELSE limit)

\* Mutant of too_many_files: a change of exactly `limit` files is large.
too_many_files_at_limit(files, limit) == Len(files) >= limit

\* `if len(self.files) > self.threshold`
too_many_files(files, limit) == Len(files) > limit

\* Mutant of check_types: two types are not yet "multiple".
check_types_above_two(types) ==
    IF Len(types) > 2
    THEN <<[text |-> "Multiple types detected", args |-> keys(types)]>> ELSE <<>>

\* checks 1 to 3 of analyze, each appending its reason
check_types(types) ==
    IF Len(types) > 1
    THEN <<[text |-> "Multiple types detected", args |-> keys(types)]>> ELSE <<>>

check_scopes(scopes) ==
    IF Len(scopes) > 1
    THEN <<[text |-> "Multiple scopes detected", args |-> keys(scopes)]>> ELSE <<>>

check_count(files, limit) ==
    IF too_many_files(files, limit)
    THEN <<[text |-> "Large change", args |-> <<Len(files), limit>>]>> ELSE <<>>

\* check 4
check_concerns(concerns) ==
    IF concerns # <<>>
    THEN <<[text |-> "Mixed concerns", args |-> concerns]>> ELSE <<>>

metrics_of(files, types, scopes, concerns, limit) ==
    [file_count |-> Len(files),
     types_detected |-> keys(types),
     type_counts |-> counts(types),
     scopes_detected |-> keys(scopes),
     scope_counts |-> counts(scopes),
     concerns |-> concerns,
     threshold |-> limit]

\* Mutant of empty_result: no changes means the changes should be split.
empty_result_split ==
    [should_split |-> TRUE,
     reason |-> <<[text |-> "No changes detected", args |-> <<>>]>>,
     metrics |-> None]

\* return False, "No changes detected", {}
empty_result ==
    [should_split |-> FALSE,
     reason |-> <<[text |-> "No changes detected", args |-> <<>>]>>,
     metrics |-> None]

\* the tuple analyze returns after its checks; '; '.join(reasons) is kept as
\* the list it joins
result_of(rs, metrics) ==
    [should_split |-> rs # <<>>,
     reason |-> IF rs # <<>> THEN rs
                ELSE <<[text |-> "Changes are atomic - single logical unit",
                        args |-> <<>>]>>,
     metrics |-> Some(metrics)]

\* sys.exit(0 if should_split else 1)
exit_status(should_split) == IF should_split THEN 0 ELSE 1

\* what main() prints for a verdict in the --json format
json_output(v) ==
    <<[should_split |-> v.should_split, reason |-> v.reason, metrics |-> v.metrics,
       recommendation |-> IF v.should_split THEN "split" ELSE "atomic"]>>

\* the lines main() prints before it reads metrics['file_count']
human_head(v) ==
    <<[text |-> "Should split", args |-> <<IF v.should_split THEN "YES" ELSE "NO">>],
      [text |-> "Reason", args |-> v.reason],
      [text |-> "Metrics", args |-> <<>>]>>

\* the lines main() prints from the metrics
human_metrics(m) ==
    <<[text |-> "Files", args |-> <<m.file_count>>],
      [text |-> "Types", args |-> m.types_detected],
      [text |-> "Scopes", args |-> m.scopes_detected]>>
    \o (IF m.concerns # <<>> THEN <<[text |-> "Concerns", args |-> m.concerns]>>
        ELSE <<>>)

(***************************************************************************)
(* split-analyzer.py as a state machine                                    *)
(***************************************************************************)
\* The values of commit-planner.py's variables while split-analyzer.py runs.
PlannerIdle ==
    /\ commits = <<>>
    /\ content = NoContent
    /\ output = "plan"
    /\ dependencies = <<>>
    /\ graph = <<>>
    /\ in_degree = <<>>
    /\ queue = <<>>
    /\ result = <<>>
    /\ sequence = <<>>

\* SplitAnalyzer.get_file_diff: the staged diff, the unstaged one when that is
\* empty; a failing command prints its error and calls sys.exit(2), which the
\* bare `except:` turns into the empty diff
get_file_diff(ds, file_path) ==
    IF ds[file_path] = GIT_ERROR THEN <<>> ELSE ds[file_path]

\* what it leaves on stderr
get_file_diff_stderr(ds, file_path) ==
    IF ds[file_path] = GIT_ERROR
    THEN <<[text |-> "Error running git command", args |-> <<file_path>>]>> ELSE <<>>

\* The analyzer after main() has parsed the command line, in a working tree
\* where every git command succeeds.
InitSplit ==
    /\ PlannerIdle
    /\ pc = "analyze"
    /\ stdout = <<>>
    /\ stderr = <<>>
    /\ exit_code = None
    /\ call = 1
    /\ first = None
    /\ verbose = FALSE
    /\ threshold \in Thresholds
    /\ json = FALSE
    /\ listing_fails = FALSE
    /\ changed \in Enumerations
    /\ diffs = Diffs
    /\ self_files = <<>>
    /\ self_types = <<>>
    /\ self_scopes = <<>>
    /\ self_concerns = <<>>
    /\ cursor = 0
    /\ reasons = <<>>
    /\ verdict = None

\* analyze(): self.files = self.get_changed_files(), and the early return;
\* when one of the two listing commands fails, SplitAnalyzer.run_git_command
\* prints the error and calls sys.exit(2)
GetChangedFiles ==
    /\ pc = "analyze"
    /\ IF listing_fails
       THEN /\ Exit(2, [text |-> "Error running git command", args |-> <<>>])
            /\ UNCHANGED <<self_files, cursor, verdict>>
       ELSE /\ self_files' = changed
            /\ cursor' = 0
            /\ stderr' = stderr \o log(verbose, [text |-> "[DEBUG] Found changed files",
                                                  args |-> <<Len(changed)>>])
            /\ IF changed = <<>>
               THEN verdict' = Some(empty_result) /\ pc' = "output"
               ELSE verdict' = verdict /\ pc' = "files"
            /\ UNCHANGED exit_code
    /\ UNCHANGED <<threshold, json, changed, diffs, self_types, self_scopes,
                   self_concerns, reasons, call, first>>
    /\ UNCHANGED <<verbose, listing_fails, planner_vars, stdout>>

\* one iteration of `for file_path in self.files`
AnalyzeFile ==
    /\ pc = "files"
    /\ LET file_path == self_files[cursor + 1]
           diff == get_file_diff(diffs, file_path)
           file_type == detect_type_from_diff(file_path, diff)
           scope == extract_scope_from_path(file_path)
       IN /\ self_types' = dict_append(self_types, file_type, file_path)
          /\ self_scopes' = dict_append(self_scopes, scope, file_path)
          /\ stderr' = stderr
                \o log(verbose, [text |-> "[DEBUG] Analyzing", args |-> <<file_path>>])
                \o get_file_diff_stderr(diffs, file_path)
                \o log(verbose, [text |-> "[DEBUG] Type, Scope",
                                 args |-> <<file_type, scope>>])
    /\ cursor' = cursor + 1
    /\ pc' = IF cursor + 1 = Len(self_files) THEN "checks" ELSE "files"
    /\ UNCHANGED <<threshold, json, changed, diffs, self_files, self_concerns,
                   reasons, verdict, call, first>>
    /\ UNCHANGED <<verbose, listing_fails, planner_vars, stdout, exit_code>>

\* reasons = [] and checks 1 to 3, each with its debug line
Checks ==
    /\ pc = "checks"
    /\ reasons' = check_types(self_types) \o check_scopes(self_scopes)
                  \o check_count(self_files, threshold)
    /\ stderr' = stderr
          \o log(verbose /\ check_types(self_types) # <<>>,
                 [text |-> "[DEBUG] SPLIT REASON: Multiple types",
                  args |-> keys(self_types)])
          \o log(verbose /\ check_scopes(self_scopes) # <<>>,
                 [text |-> "[DEBUG] SPLIT REASON: Multiple scopes",
                  args |-> keys(self_scopes)])
          \o log(verbose /\ check_count(self_files, threshold) # <<>>,
                 [text |-> "[DEBUG] SPLIT REASON: Too many files",
                  args |-> <<Len(self_files), threshold>>])
    /\ pc' = "mixed"
    /\ UNCHANGED <<threshold, json, changed, diffs, self_files, self_types,
                   self_scopes, self_concerns, cursor, verdict, call, first>>
    /\ UNCHANGED <<verbose, listing_fails, planner_vars, stdout, exit_code>>

\* check 4: self.concerns = self.detect_mixed_concerns(); its TypeError is
\* uncaught and ends the interpreter with a traceback and status 1
MixedConcerns ==
    /\ pc = "mixed"
    /\ IF mixed_raises(self_types, self_scopes)
       THEN /\ Exit(1, [text |-> "TypeError", args |-> <<>>])
            /\ UNCHANGED <<self_concerns, reasons>>
       ELSE /\ self_concerns' = detect_mixed_concerns(self_types)
            /\ reasons' = reasons \o check_concerns(self_concerns')
            /\ stderr' = stderr
                  \o log(verbose /\ self_concerns' # <<>>,
                         [text |-> "[DEBUG] SPLIT REASON: Mixed concerns detected",
                          args |-> <<>>])
            /\ pc' = "return"
            /\ UNCHANGED exit_code
    /\ UNCHANGED <<threshold, json, changed, diffs, self_files, self_types,
                   self_scopes, cursor, verdict, call, first>>
    /\ UNCHANGED <<verbose, listing_fails, planner_vars, stdout>>

\* the metrics dict, the debug line of the recommendation and
\* `return should_split, reason, metrics`
Return ==
    /\ pc = "return"
    /\ verdict' = Some(result_of(reasons,
                       metrics_of(self_files, self_types, self_scopes,
                                  self_concerns, threshold)))
    /\ stderr' = stderr
          \o log(verbose,
                 IF reasons # <<>>
                 THEN [text |-> "[DEBUG] RECOMMENDATION: Should split", args |-> reasons]
                 ELSE [text |-> "[DEBUG] RECOMMENDATION: Already atomic", args |-> <<>>])
    /\ pc' = "output"
    /\ UNCHANGED <<threshold, json, changed, diffs, self_files, self_types,
                   self_scopes, self_concerns, cursor, reasons, call, first>>
    /\ UNCHANGED <<verbose, listing_fails, planner_vars, stdout, exit_code>>

\* main() after analyze(): print in the format of args.json, then sys.exit;
\* in the human-readable format metrics['file_count'] of an empty metrics
\* dict raises KeyError
Output ==
    /\ pc = "output"
    /\ \E j \in BOOLEAN :
          /\ json' = j
          /\ IF j
             THEN /\ stdout' = json_output(verdict[1])
                  /\ pc' = "exit"
                  /\ exit_code' = Some(exit_status(verdict[1].should_split))
                  /\ UNCHANGED stderr
             ELSE IF verdict[1].metrics = None
             THEN /\ stdout' = human_head(verdict[1])
                  /\ Exit(1, [text |-> "KeyError", args |-> <<>>])
             ELSE /\ stdout' = human_head(verdict[1])
                               \o human_metrics(verdict[1].metrics[1])
                  /\ pc' = "exit"
                  /\ exit_code' = Some(exit_status(verdict[1].should_split))
                  /\ UNCHANGED stderr
    /\ UNCHANGED <<threshold, changed, diffs, self_files, self_types, self_scopes,
                   self_concerns, cursor, reasons, verdict, call, first>>
    /\ UNCHANGED <<verbose, listing_fails, planner_vars>>

\* A caller that keeps the SplitAnalyzer calls analyze() a second time, the
\* working tree unchanged; `first` keeps what the first call returned.
AnalyzeAgain ==
    /\ pc = "output"
    /\ call = 1
    /\ first' = verdict
    /\ call' = 2
    /\ pc' = "analyze"
    /\ UNCHANGED <<threshold, json, changed, diffs, self_files, self_types,
                   self_scopes, self_concerns, cursor, reasons, verdict>>
    /\ UNCHANGED <<verbose, listing_fails, planner_vars, stdout, stderr, exit_code>>

NextSplit ==
    \/ GetChangedFiles \/ AnalyzeFile \/ Checks \/ MixedConcerns \/ Return
    \/ Output \/ AnalyzeAgain

(***************************************************************************)
(* One changed file at a time: paths for every path rule of                *)
(* detect_type_from_diff and every way extract_scope_from_path skips or    *)
(* cuts, each with diffs of several content types                          *)
(***************************************************************************)

P_tests_e2e_md == <<"t","e","s","t","s","/","e","2","e",".","m","d">>
P_github_test_yml == <<".","g","i","t","h","u","b","/","t","e","s","t","/","a",".","y","m","l">>
P_github_package == <<".","g","i","t","h","u","b","/","p","a","c","k","a","g","e",".","j","s","o","n">>
P_src == <<"s","r","c">>
P_dot_lib_db == <<".","/","l","i","b","/","d","b",".","p","y">>
P_up_app == <<".",".","/","a","p","p">>
P_packages_core == <<"p","a","c","k","a","g","e","s","/","c","o","r","e","/","x",".","j","s">>
P_makefile == <<"M","a","k","e","f","i","l","e">>
P_docs_pom == <<"d","o","c","s","/","p","o","m",".","x","m","l">>
P_a_spec == <<"a",".","s","p","e","c",".","j","s">>
P_latest == <<"l","a","t","e","s","t","/","x",".","p","y">>

InferPaths ==
    {P_tests_e2e_md, P_github_test_yml, P_github_package, P_src, P_dot_lib_db,
     P_up_app, P_packages_core, P_makefile, P_docs_pom, P_a_spec, P_latest,
     F_login, F_login_test, F_package}

\* diffs whose content reads as chore (empty), feat, fix, refactor and style,
\* and a path that `git diff` fails on (deleted from the working tree)
InferDiffs == {<<>>, D_login, D_api_f, D_api_x, D_api_y, GIT_ERROR}

\* split-analyzer.py main() up to SplitAnalyzer(threshold, verbose):
\* parse_args prints the usage text on stdout and ends with status 0 on
\* -h/--help, ends with status 2 on arguments it does not accept (a
\* --threshold that is no integer); args.json is drawn where main() reads it
ParseArgs ==
    /\ pc = "start"
    /\ \E outcome \in {"help", "usage", "parsed"} :
          CASE outcome = "help" ->
                   /\ stdout' = <<[text |-> "usage", args |-> <<>>]>>
                   /\ pc' = "exit"
                   /\ exit_code' = Some(0)
                   /\ UNCHANGED <<stderr, verbose, threshold>>
            [] outcome = "usage" ->
                   /\ Exit(2, [text |-> "usage", args |-> <<>>])
                   /\ UNCHANGED <<stdout, verbose, threshold>>
            [] outcome = "parsed" ->
                   /\ pc' = "analyze"
                   /\ verbose' \in BOOLEAN
                   /\ threshold' \in Thresholds
                   /\ UNCHANGED <<stdout, stderr, exit_code>>
    /\ UNCHANGED <<json, listing_fails, changed, diffs, self_files, self_types,
                   self_scopes, self_concerns, cursor, reasons, verdict, call, first>>
    /\ UNCHANGED planner_vars

NextSplitMain == ParseArgs \/ NextSplit

\* main() at its first line, one file changed in the working tree
InitInfer ==
    /\ PlannerIdle
    /\ pc = "start"
    /\ stdout = <<>>
    /\ stderr = <<>>
    /\ exit_code = None
    /\ call = 1
    /\ first = None
    /\ verbose = FALSE
    /\ threshold = 10
    /\ json = FALSE
    /\ listing_fails \in BOOLEAN
    /\ \E file_path \in InferPaths : \E diff \in InferDiffs :
          /\ changed = <<file_path>>
          /\ diffs = (file_path :> diff)
    /\ self_files = <<>>
    /\ self_types = <<>>
    /\ self_scopes = <<>>
    /\ self_concerns = <<>>
    /\ cursor = 0
    /\ reasons = <<>>
    /\ verdict = None

SpecInfer == InitInfer /\ [][NextSplitMain]_vars

SpecSplit == InitSplit /\ [][NextSplit]_vars

(***************************************************************************)
(* Vocabulary of the properties                                            *)
(***************************************************************************)
Indices == DOMAIN commits

TypeErrorMessage == [text |-> "TypeError", args |-> <<>>]
CircularMessage == [text |-> "Error: Circular dependency detected", args |-> <<>>]

\* build_dependency_graph has returned (the graph exists)
BuildReturned == N > 0 /\ pc \notin {"main", "build"} /\ TypeErrorMessage \notin Range(stderr)

\* build_dependency_graph has ended by an uncaught TypeError
BuildRaised == pc = "exit" /\ TypeErrorMessage \in Range(stderr)

\* the graph as build_dependency_graph returned it, before the sort consumes it
Graph0 == graph

EdgeSet(G) == {e \in (DOMAIN G) \X (DOMAIN G) : e[1] \in G[e[2]]}

\* a finite graph has a cycle iff some non-empty set of nodes has, for each of
\* its nodes, a predecessor inside the set
HasCycle(G) ==
    \E S \in (SUBSET (DOMAIN G)) \ {{}} : \A x \in S : G[x] \cap S # {}

SortReturned == pc = "annotate" \/ (pc = "exit" /\ exit_code = Some(0))
SortFailed == BuildReturned /\ pc = "exit" /\ exit_code # Some(0)
PlanProduced == pc = "exit" /\ exit_code = Some(0)

Position(x) == index(result, x)
Emitted(k) == {result[m] : m \in 1..k}
Unassigned == Indices \ Range(result)

\* the descriptors that are ready when the k-th descriptor is emitted
ReadyAt(k) == {x \in Indices : x \notin Emitted(k - 1) /\ Graph0[x] \subseteq Emitted(k - 1)}

\* the number of emissions after which x became ready (0: ready from the start)
Max(S) == CHOOSE x \in S : \A y \in S : y <= x
ReadySince(x) == IF Graph0[x] = {} THEN 0 ELSE Max({Position(p) : p \in Graph0[x]})

Priority(x) == TYPE_PRIORITY[commits[x].type]

(***************************************************************************)
(* C1..C10                                                                 *)
(***************************************************************************)

\* C1: when the dependency graph has no cycle, the sequencer returns every
\* index 0..N-1 exactly once, 'order' is a bijection onto 1..N, and every
\* producer is placed strictly before its dependents.
C1_TotalOrder ==
    (BuildReturned /\ ~HasCycle(Graph0) /\ pc \in {"annotate", "exit"}) =>
        /\ SortReturned
        /\ Len(result) = N
        /\ Range(result) = Indices
        /\ \A d \in Indices : \A p \in Graph0[d] : Position(p) < Position(d)
        /\ pc = "exit" =>
              /\ Len(sequence) = N
              /\ \A k \in 1..N : sequence[k].order = k /\ sequence[k].original_id = result[k]
              /\ {sequence[k].original_id : k \in 1..N} = Indices

C1_Witness ==
    /\ PlanProduced /\ N = 3
    /\ Cardinality(EdgeSet(Graph0)) >= 2
    /\ result # <<0, 1, 2>>

\* C2: when the dependency graph has a cycle, the sequencer fails with the
\* circular-dependency error and no Plan, partial or full, is returned.
C2_CycleDetected ==
    (BuildReturned /\ HasCycle(Graph0)) =>
        /\ pc \in {"sort_init", "sort_loop", "exit"}
        /\ sequence = <<>>
        /\ stdout = <<>>
        /\ pc = "exit" => (exit_code = Some(1) /\ stderr = <<CircularMessage>>)

C2_Witness ==
    /\ pc = "exit" /\ BuildReturned /\ HasCycle(Graph0)
    /\ result # <<>> /\ Len(result) < N

\* C3 (as stated): of two ready descriptors with equal type priority the one
\* with the smaller original index is emitted first, whichever became ready
\* first.
C3_IndexTieBreak ==
    BuildReturned =>
        \A k \in 1..Len(result) : \A x \in ReadyAt(k) :
            Priority(x) = Priority(result[k]) => result[k] <= x

\* C3 (amended): of two ready descriptors with equal type priority the one that
\* became ready earlier is emitted first; the smaller original index decides
\* only between descriptors that became ready at the same step.
C3_FifoTieBreak ==
    BuildReturned =>
        \A k \in 1..Len(result) : \A x \in ReadyAt(k) :
            Priority(x) = Priority(result[k]) =>
                \/ ReadySince(result[k]) < ReadySince(x)
                \/ ReadySince(result[k]) = ReadySince(x) /\ result[k] <= x

C3_Witness ==
    /\ PlanProduced
    /\ \E k \in 1..Len(result) : \E x \in ReadyAt(k) :
          /\ Priority(x) = Priority(result[k])
          /\ x < result[k]
          /\ ReadySince(result[k]) < ReadySince(x)

\* C4: the descriptor emitted at each step is ready and has the lowest
\* TYPE_PRIORITY value among the descriptors ready at that step.
C4_LowestPriorityFirst ==
    BuildReturned =>
        \A k \in 1..Len(result) :
            /\ result[k] \in ReadyAt(k)
            /\ \A x \in ReadyAt(k) : Priority(result[k]) <= Priority(x)

C4_Witness ==
    /\ PlanProduced
    /\ \E k \in 1..Len(result) : \E x \in ReadyAt(k) :
          x < result[k] /\ Priority(result[k]) < Priority(x)

\* C5: in the returned Plan a descriptor without incoming edge is annotated
\* 'now', any other 'after commit k' with k the least position of its direct
\* predecessors.
C5_Annotation ==
    PlanProduced =>
        \A k \in 1..Len(sequence) :
            LET x == sequence[k].original_id
            IN sequence[k].can_execute =
                  IF Graph0[x] = {} THEN <<"now">>
                  ELSE <<"after commit", Min({Position(p) : p \in Graph0[x]})>>

\* C6 (as stated): build_dependency_graph never returns an edge set holding
\* both (i, j) and (j, i).
C6_ContradictionRejected ==
    pc = "sort_init" =>
        \A i \in Indices : \A j \in Indices :
            ~(i # j /\ i \in dependencies[j] /\ j \in dependencies[i])

Derived(i, j) ==
    /\ i # j
    /\ ~detect_raises(commits[i], commits[j])
    /\ detect_dependencies(content, commits[i], commits[j])

\* C6 (amended): when the heuristics derive both (i, j) and (j, i),
\* build_dependency_graph reports no contradiction: the graph it returns holds
\* both directions, and the run can only end in the sequencer's
\* circular-dependency error or in the TypeError of build_dependency_graph.
C6_BothDirectionsKept ==
    pc \in {"sort_init", "annotate", "exit"} =>
        \A i \in Indices : \A j \in Indices :
            (Derived(i, j) /\ Derived(j, i)) =>
                /\ pc = "sort_init" => (i \in dependencies[j] /\ j \in dependencies[i])
                /\ pc # "annotate"
                /\ pc = "exit" =>
                      /\ exit_code = Some(1)
                      /\ stderr \in {<<CircularMessage>>, <<TypeErrorMessage>>}

C6_Witness ==
    /\ pc = "exit" /\ stderr = <<CircularMessage>>
    /\ \E i \in Indices : \E j \in Indices :
          /\ Derived(i, j) /\ Derived(j, i)
          /\ i \in graph[j] /\ j \in graph[i]

ReportedIndices == UNION {Range(m.args) : m \in Range(stderr)}

\* C7 (as stated): the failure reported for a cycle names exactly the indices
\* that were not assigned a position.
C7_ReportsUnassigned ==
    SortFailed => ReportedIndices = Unassigned

\* C7 (amended): the failure reported for a cycle is the fixed message
\* "Error: Circular dependency detected" with exit status 1; it names no index,
\* although some indices were left without a position.
C7_ReportNamesNoIndex ==
    SortFailed =>
        /\ stderr = <<CircularMessage>>
        /\ exit_code = Some(1)
        /\ ReportedIndices = {}
        /\ Unassigned # {}

C7_Witness ==
    /\ SortFailed /\ N = 3
    /\ Unassigned = {1, 2}

Rule1(c1, c2) == c1.type # "test" /\ c2.type = "test" /\ c1.scope = c2.scope
Rule2(c1, c2) ==
    /\ c1.type = "feat" /\ c2.type = "docs"
    /\ \E s \in Range(c1.scope) : Contains(c2.subject, s)
Rule3(c1, c2) == c1.type = "feat" /\ c2.type = "fix" /\ c1.scope = c2.scope
Rule4(c1, c2) ==
    \E f2 \in Range(c2.files) : \E f1 \in Range(c1.files) :
        has_import_dependency(content, f1, f2)
SomeRule(i, j) ==
    i # j /\ (\/ Rule1(commits[i], commits[j]) \/ Rule2(commits[i], commits[j])
              \/ Rule3(commits[i], commits[j]) \/ Rule4(commits[i], commits[j]))

\* C8: build_dependency_graph records that j depends on i exactly when i # j and
\* one of the four rules holds for (i, j).  (A call that raises has recorded
\* nothing: graph is still empty.)
C8_EdgesIffRules ==
    (N > 0 /\ pc \notin {"main", "build"}) =>
        \A i \in Indices : \A j \in Indices :
            (i \in graph[j]) <=> SomeRule(i, j)

\* C9: build_dependency_graph returns an edge set for every list of descriptors
\* with enumerated types; it never fails.
C9_BuildTotal ==
    (N > 0 /\ pc \notin {"main", "build"}) => BuildReturned

ScenarioB ==
    (0 :> [type |-> "feat", scope |-> Some(S_auth), subject |-> S_update_readme, files |-> <<>>])
    @@ (1 :> [type |-> "test", scope |-> Some(S_auth), subject |-> S_update_readme, files |-> <<>>])
    @@ (2 :> [type |-> "docs", scope |-> None, subject |-> S_document_auth_flow, files |-> <<>>])

\* C10: for Scenario B the built edge set is exactly {(0,1), (0,2)} and the
\* sequence is [0, 1, 2].
C10_ScenarioB ==
    commits = ScenarioB =>
        /\ pc \notin {"sort_init", "sort_loop", "annotate", "exit"} \/ BuildReturned
        /\ pc = "sort_init" => EdgeSet(dependencies) = {<<0, 1>>, <<0, 2>>}
        /\ pc \in {"annotate", "exit"} => result = <<0, 1, 2>>
        /\ pc = "exit" =>
              /\ exit_code = Some(0)
              /\ [k \in 1..Len(sequence) |-> sequence[k].original_id] = <<0, 1, 2>>

C10_Witness == commits = ScenarioB /\ PlanProduced

(***************************************************************************)
(* C11..C20                                                                *)
(***************************************************************************)
KeyErrorMessage == [text |-> "KeyError", args |-> <<>>]

HasMissing == \E i \in Indices : commits[i].type = MISSING
HasUnknown == \E i \in Indices : commits[i].type \notin COMMIT_TYPES \cup {MISSING}
Enumerated(x) == commits[x].type \in COMMIT_TYPES

\* C17 (as stated): a list holding a descriptor whose type is missing or
\* outside the enumeration is rejected before any graph or sequencing work:
\* build_dependency_graph never returns for it and no Plan is produced.
C17_MalformedRejected ==
    (HasMissing \/ HasUnknown) =>
        /\ pc \notin {"sort_init", "sort_loop", "annotate"}
        /\ ~PlanProduced

\* the calls detect_dependencies(commits[i], commits[j]) in which the docs rule
\* tests the scope None of a feat against a subject (the TypeError of C9)
NoneScopeCall(i, j) ==
    /\ i # j
    /\ commits[i].type = "feat" /\ commits[i].scope = None
    /\ commits[j].type = "docs"

\* the calls that read the type of a descriptor that has none: that of the
\* first descriptor always, that of the second unless the first is a test
MissingTypeCall(i, j) ==
    /\ i # j
    /\ \/ commits[i].type = MISSING
       \/ commits[i].type # "test" /\ commits[j].type = MISSING

\* call p is made before call q (`for i ...: for j ...:`)
CalledBefore(p, q) == p[1] < q[1] \/ (p[1] = q[1] /\ p[2] < q[2])

Calls == Indices \X Indices

\* a None-scope call is made before every call that reads a missing type
NoneScopeFirst ==
    \E p \in Calls :
        /\ NoneScopeCall(p[1], p[2])
        /\ \A q \in Calls : MissingTypeCall(q[1], q[2]) => CalledBefore(p, q)

\* C17 (amended): a descriptor whose type is outside the enumeration is
\* accepted: it is emitted only when no descriptor of an enumerated type is
\* ready (sort key 99), and a Plan is produced for the list unless its graph
\* has a cycle (circular-dependency error) or it holds a feat without scope
\* and a docs descriptor (the TypeError of C9).  A list holding a descriptor
\* without a type yields no Plan, not by a report before the work but by an
\* uncaught exception (status 1): with one descriptor the KeyError of
\* topological_sort's sort key; with two or more an exception of
\* build_dependency_graph, which is the TypeError of C9 when a feat without
\* scope is compared with a docs descriptor before any missing type is read,
\* and else the KeyError of the first read of the missing type.
C17_MalformedHandling ==
    /\ HasMissing =>
          /\ pc # "annotate"
          /\ sequence = <<>> /\ stdout = <<>>
          /\ pc = "exit" =>
                /\ exit_code = Some(1)
                /\ result = <<>>
                /\ N = 1 => (queue = <<0>> /\ stderr = <<KeyErrorMessage>>)
                /\ N > 1 =>
                      /\ queue = <<>>
                      /\ in_degree = [n \in Indices |-> 0]
                      /\ stderr = IF NoneScopeFirst THEN <<TypeErrorMessage>>
                                  ELSE <<KeyErrorMessage>>
    /\ (HasUnknown /\ ~HasMissing) =>
          /\ \A k \in 1..Len(result) : \A x \in ReadyAt(k) :
                Enumerated(x) => Enumerated(result[k])
          /\ pc = "exit" =>
                /\ (\E p \in Calls : NoneScopeCall(p[1], p[2])) <=>
                      stderr = <<TypeErrorMessage>>
                /\ stderr \in {<<>>, <<CircularMessage>>, <<TypeErrorMessage>>}
                /\ stderr = <<CircularMessage>> => HasCycle(Graph0)
                /\ stderr = <<>> =>
                      (PlanProduced /\ Len(sequence) = N /\ ~HasCycle(Graph0))
                /\ stderr # <<>> => (exit_code = Some(1) /\ stdout = <<>>)

C17_Witness ==
    /\ PlanProduced /\ N = 3 /\ call = 1
    /\ ~Enumerated(0) /\ Enumerated(1) /\ Enumerated(2)
    /\ Graph0[0] = {}
    /\ result[3] = 0

\* [wip, feat without scope, docs]: no cycle, and no Plan through the TypeError
C17_UnknownRaises ==
    /\ pc = "exit" /\ N = 3 /\ call = 1
    /\ commits[0].type = "wip" /\ NoneScopeCall(1, 2)
    /\ stderr = <<TypeErrorMessage>> /\ exit_code = Some(1)

\* [feat without scope, docs, no type]: the TypeError comes before the
\* missing type is read
C17_NoneScopeBeforeMissing ==
    /\ pc = "exit" /\ N = 3 /\ call = 1
    /\ NoneScopeCall(0, 1) /\ commits[2].type = MISSING
    /\ stderr = <<TypeErrorMessage>> /\ exit_code = Some(1)

\* [docs, no type, feat without scope]: the missing type is read first
C17_MissingBeforeNoneScope ==
    /\ pc = "exit" /\ N = 3 /\ call = 1
    /\ NoneScopeCall(2, 0) /\ commits[1].type = MISSING
    /\ stderr = <<KeyErrorMessage>> /\ exit_code = Some(1)

\* C18: a second call of create_sequence on the same CommitPlanner, with the
\* same list and the same file contents, builds the same graph and returns
\* the same order and the same sequence as the first, and fails no more than
\* the first did.
C18_RepeatedCallAgrees ==
    call = 2 =>
        /\ stderr = <<>>
        /\ exit_code # Some(1)
        /\ pc \in {"annotate", "exit"} =>
              (graph = first[1].graph /\ result = first[1].order)
        /\ pc = "exit" => (sequence = first[1].sequence /\ stdout = sequence)

C18_Witness ==
    /\ call = 2 /\ pc = "exit" /\ N = 3
    /\ Cardinality(EdgeSet(Graph0)) >= 2
    /\ content # NoContent
    /\ result # <<0, 1, 2>>

\* C20 (as stated): once topological_sort has returned, the dependency graph
\* it was given holds the edges it held when build_dependency_graph returned
\* it.
C20_GraphUnchanged ==
    (BuildReturned /\ SortReturned) => dependencies = Graph0

(***************************************************************************)
(* Vocabulary of the classifier's properties                               *)
(***************************************************************************)
\* analyze has ended, by a return or by an exception
AnalyzeEnded == pc \in {"output", "exit"}

\* analyze has returned the tuple held in `verdict`
Returned == AnalyzeEnded /\ verdict # None

TypeOf(file_path) == detect_type_from_diff(file_path, get_file_diff(diffs, file_path))
TypesOf(files) == {TypeOf(files[k]) : k \in DOMAIN files}
ScopesOf(files) == {extract_scope_from_path(files[k]) : k \in DOMAIN files}

\* the four triggers, read off the change set
ManyTypes == Cardinality(TypesOf(changed)) > 1
ManyScopes == Cardinality(ScopesOf(changed)) > 1
ManyFiles == Len(changed) > threshold
FeatureMix ==
    "feat" \in TypesOf(changed) /\ TypesOf(changed) \cap {"refactor", "style"} # {}
TestScopes ==
    {extract_scope_from_path(changed[k]) : k \in {n \in DOMAIN changed : TypeOf(changed[n]) = "test"}}
ImplScopes ==
    {extract_scope_from_path(changed[k]) : k \in {n \in DOMAIN changed : TypeOf(changed[n]) # "test"}}
TestMix == "test" \in TypesOf(changed) /\ TestScopes # ImplScopes
MixedConcern == FeatureMix \/ TestMix

ReasonTexts(v) == [k \in 1..Len(v.reason) |-> v.reason[k].text]

ExpectedTexts ==
    (IF ManyTypes THEN <<"Multiple types detected">> ELSE <<>>)
    \o (IF ManyScopes THEN <<"Multiple scopes detected">> ELSE <<>>)
    \o (IF ManyFiles THEN <<"Large change">> ELSE <<>>)
    \o (IF MixedConcern THEN <<"Mixed concerns">> ELSE <<>>)

\* a change set the data model allows: some file, a positive threshold
ValidInput == changed # <<>> /\ threshold > 0

\* C11 (as stated): for every valid change set analyze answers, and its
\* should_split is true exactly when one of the four triggers fired.
C11_SplitIffTrigger ==
    (ValidInput /\ AnalyzeEnded) =>
        /\ verdict # None
        /\ verdict[1].should_split <=> (ManyTypes \/ ManyScopes \/ ManyFiles \/ MixedConcern)

\* C12 (as stated): for every valid change set the reasons returned hold one
\* entry per trigger that fired, in the order types, scopes, file count, mixed
\* concerns, whatever the combination.
C12_ReasonPerTrigger ==
    (ValidInput /\ AnalyzeEnded) =>
        /\ verdict # None
        /\ ExpectedTexts # <<>> => ReasonTexts(verdict[1]) = ExpectedTexts

\* C13 (as stated): for the empty change set analyze returns no verdict and
\* the process does not end with the exit status of an atomic verdict.
C13_EmptyRejected ==
    (changed = <<>> /\ AnalyzeEnded) =>
        /\ verdict = None
        /\ pc = "exit" => exit_code # Some(exit_status(FALSE))

\* C13 (amended): for the empty change set analyze returns should_split =
\* false with the reason "No changes detected" and empty metrics, and main
\* ends with exit status 1, the status of an atomic verdict: with --json after
\* printing the recommendation "atomic", without it in a KeyError raised while
\* printing the metrics.  An atomic verdict of a change set that is not empty
\* has the same status and recommendation; its reason and its metrics differ.
C13_EmptyIsAtomic ==
    /\ (changed = <<>> /\ AnalyzeEnded) =>
          /\ verdict # None
          /\ verdict[1].should_split = FALSE
          /\ ReasonTexts(verdict[1]) = <<"No changes detected">>
          /\ verdict[1].metrics = None
          /\ pc = "exit" =>
                /\ exit_code = Some(1)
                /\ json => (stderr = <<>> /\ stdout[1].recommendation = "atomic")
                /\ ~json => (stderr = <<KeyErrorMessage>> /\ Len(stdout) = 3)
    /\ (changed # <<>> /\ pc = "exit" /\ stdout # <<>> /\ ~verdict[1].should_split) =>
          /\ exit_code = Some(1)
          /\ json => stdout[1].recommendation = "atomic"
          /\ ReasonTexts(verdict[1]) # <<"No changes detected">>
          /\ verdict[1].metrics # None

\* an atomic verdict of a change set that is not empty, printed with --json
C13_AtomicVerdict ==
    /\ changed # <<>> /\ pc = "exit" /\ json /\ call = 1
    /\ stdout # <<>> /\ ~verdict[1].should_split /\ exit_code = Some(1)

C13_Witness ==
    /\ changed = <<>> /\ pc = "exit" /\ json /\ call = 1
    /\ stdout # <<>> /\ exit_code = Some(1)

\* the change set without its k-th file
Without(files, k) == SubSeq(files, 1, k - 1) \o SubSeq(files, k + 1, Len(files))

\* a change set of one type that analyze calls atomic
AtomicBase(files) ==
    /\ files # <<>>
    /\ Cardinality(TypesOf(files)) = 1
    /\ "test" \notin TypesOf(files)
    /\ Cardinality(ScopesOf(files)) = 1
    /\ Len(files) <= threshold

\* C14 (as stated): a change set made of an atomic single-type change set and
\* one more file of another type, test included, gets should_split = true.
C14_NewTypeSplits ==
    (AnalyzeEnded /\ \E k \in DOMAIN changed :
                        /\ AtomicBase(Without(changed, k))
                        /\ TypeOf(changed[k]) \notin TypesOf(Without(changed, k))) =>
        (verdict # None /\ verdict[1].should_split)

ScenarioA == Range(changed) = {F_login, F_login_test} /\ threshold = 10

\* C15 (as stated): for Scenario A (src/auth/login.ts and
\* src/auth/login.test.ts, threshold 10) analyze returns should_split = false.
C15_ScenarioA ==
    (ScenarioA /\ AnalyzeEnded) => (verdict # None /\ verdict[1].should_split = FALSE)

\* C16 (as stated): with a threshold of 0 or less no file is analysed, no
\* verdict is returned and the process ends with exit status 2.
C16_ThresholdRejected ==
    threshold < 1 =>
        /\ self_types = <<>>
        /\ verdict = None
        /\ pc = "exit" => exit_code = Some(2)

\* C16 (amended): a threshold of 0 or less is accepted: the files are analysed
\* as usual, the exit status is never 2, and every verdict returned for a
\* non-empty change set is should_split = true (exit status 0) with the
\* file-count reason, since any file count exceeds the threshold.
C16_ThresholdAccepted ==
    threshold < 1 =>
        /\ exit_code # Some(2)
        /\ pc \in {"checks", "mixed", "return", "output"} /\ changed # <<>> =>
              \A k \in DOMAIN changed :
                  \E n \in DOMAIN self_types : \E m \in DOMAIN self_types[n].files :
                      self_types[n].files[m] = changed[k]
        /\ (Returned /\ changed # <<>>) =>
              /\ verdict[1].should_split
              /\ [text |-> "Large change", args |-> <<Len(changed), threshold>>]
                     \in Range(verdict[1].reason)
              /\ pc = "exit" => exit_code = Some(0)

C16_Witness ==
    /\ threshold < 1 /\ pc = "exit" /\ exit_code = Some(0) /\ call = 1
    /\ Len(changed) = 1
    /\ ReasonTexts(verdict[1]) = <<"Large change">>

\* self.types (self.scopes) of a fresh analyzer after the loop over `files`
RECURSIVE types_after(_)
types_after(files) ==
    IF files = <<>> THEN <<>>
    ELSE dict_append(types_after(SubSeq(files, 1, Len(files) - 1)),
                     TypeOf(files[Len(files)]), files[Len(files)])

RECURSIVE scopes_after(_)
scopes_after(files) ==
    IF files = <<>> THEN <<>>
    ELSE dict_append(scopes_after(SubSeq(files, 1, Len(files) - 1)),
                     extract_scope_from_path(files[Len(files)]), files[Len(files)])

\* what analyze returns on a fresh analyzer whose get_changed_files returns
\* `files` (a list for which detect_mixed_concerns does not raise)
fresh_verdict(files) ==
    IF files = <<>> THEN empty_result
    ELSE LET types == types_after(files)
             scopes == scopes_after(files)
             concerns == detect_mixed_concerns(types)
         IN result_of(check_types(types) \o check_scopes(scopes)
                          \o check_count(files, threshold) \o check_concerns(concerns),
                      metrics_of(files, types, scopes, concerns, threshold))

\* the orders in which the same changed files may be enumerated
Reorderings == {q \in Enumerations : Range(q) = Range(changed)}

\* C19 (as stated): the tuple analyze returns is the one it returns for any
\* other enumeration of the same changed files, and a second analyze() on the
\* same analyzer returns the tuple the first returned.
C19_SameVerdict ==
    Returned =>
        /\ \A q \in Reorderings : fresh_verdict(q) = verdict[1]
        /\ (call = 2 /\ pc = "output") => verdict = first

(***************************************************************************)
(* C21..C30                                                                *)
(***************************************************************************)
UsageMessage == [text |-> "usage", args |-> <<>>]
LoadErrorMessage == [text |-> "Error loading suggestions", args |-> <<>>]
EmptyMessage == [text |-> "No commit suggestions provided", args |-> <<>>]

\* a line on stderr that reports no failure of the planning: a debug line of
\* --verbose, or the error of a `git show` that the planner goes on after
Incidental(m) ==
    m.text \in {"[DEBUG] Planning sequence for commits", "[DEBUG] Dependency",
                "Error running git command"}

Reports(m) == ~Incidental(m)

\* the failures reported on stderr
Failures == SelectSeq(stderr, Reports)

\* parse_args has printed the usage text that -h/--help asks for
HelpPrinted == Len(stdout) = 1 /\ "text" \in DOMAIN stdout[1]

\* main() got to see the suggestions
Loaded == pc \notin {"start"} /\ UsageMessage \notin Range(stderr)
              /\ LoadErrorMessage \notin Range(stderr) /\ ~HelpPrinted

PlanPrinted == stdout # <<>> /\ ~HelpPrinted

\* C21 (as stated): the exit status is 0 exactly when a plan was printed, 2
\* exactly when the arguments were refused, and 1 for every fatal planning
\* error: unreadable input, empty list, cycle, and a list holding a descriptor
\* whose type is missing or outside the enumeration.
C21_ExitStatus ==
    pc = "exit" =>
        /\ exit_code = Some(0) <=> PlanPrinted
        /\ exit_code = Some(2) <=> Failures = <<UsageMessage>>
        /\ (Failures = <<LoadErrorMessage>> \/ (Loaded /\ N = 0)) => exit_code = Some(1)
        /\ (Loaded /\ Failures = <<CircularMessage>>) => exit_code = Some(1)
        /\ (Loaded /\ (HasMissing \/ HasUnknown)) => exit_code = Some(1)

\* C21 (amended): the exit status is 0 exactly when a plan was printed or
\* the usage text that --help asks for, 2 exactly when the arguments were
\* refused, and 1 otherwise: unreadable input, empty list, cycle, or an
\* uncaught exception (a descriptor without a type or without files, one
\* without a subject in the plan and script formats, the TypeError of the
\* docs rule).  A descriptor whose type is outside the enumeration is no error,
\* and neither is a `git show` that fails: unless one of those failures
\* occurs, the plan is printed with status 0.  A plan is never printed with
\* another status.
C21_ExitStatusOfCode ==
    pc = "exit" =>
        /\ exit_code = Some(0) <=> (PlanPrinted \/ HelpPrinted)
        /\ PlanPrinted => (exit_code = Some(0) /\ Len(stdout) = N /\ N > 0 /\ Loaded)
        /\ HelpPrinted => stderr = <<>>
        /\ exit_code = Some(0) => Failures = <<>>
        /\ exit_code = Some(2) <=> Failures = <<UsageMessage>>
        /\ exit_code = Some(1) <=>
              Failures \in {<<LoadErrorMessage>>, <<EmptyMessage>>, <<CircularMessage>>,
                            <<KeyErrorMessage>>, <<TypeErrorMessage>>}
        /\ Failures = <<EmptyMessage>> <=> (Loaded /\ N = 0)
        /\ Failures = <<CircularMessage>> => HasCycle(Graph0)
        /\ (Loaded /\ HasMissing) => exit_code = Some(1)
        /\ PlanPrinted => ~output_raises(commits, output)
        /\ (Loaded /\ ~HasMissing /\ ~build_raises(commits) /\ N > 0
               /\ ~HasCycle(Graph0)) =>
              IF output_raises(commits, output)
              THEN exit_code = Some(1) /\ Failures = <<KeyErrorMessage>>
              ELSE exit_code = Some(0)

C21_Witness ==
    /\ pc = "exit" /\ exit_code = Some(0) /\ N = 2
    /\ ~Enumerated(1) /\ Enumerated(0)
    /\ PlanPrinted

\* a plan printed although `git show` failed, with the debug lines of --verbose
C21_GitFailed ==
    /\ pc = "exit" /\ exit_code = Some(0) /\ PlanPrinted /\ verbose
    /\ \E k \in DOMAIN stderr : stderr[k].text = "Error running git command"

\* a list that is sequenced and then fails in the formatting: no 'files'
C21_NoFiles ==
    /\ pc = "exit" /\ exit_code = Some(1) /\ sequence # <<>> /\ stdout = <<>>
    /\ \E i \in Indices : commits[i].files = NO_FILES

\* a descriptor without 'subject' is printed in the json format
C21_NoSubject ==
    /\ pc = "exit" /\ exit_code = Some(0) /\ PlanPrinted /\ output = "json"
    /\ \E i \in Indices : commits[i].subject = NO_SUBJECT

\* two runs on the same input that leave different lines on stderr: the sets
\* of files are visited in another order
C21_SetOrder ==
    /\ pc = "exit" /\ PlanPrinted /\ ~verbose
    /\ Cardinality(build_stderr(content, commits, FALSE)) > 1

\* the usage text of --help
C21_Help == pc = "exit" /\ exit_code = Some(0) /\ HelpPrinted

\* has_import_dependency is false for every pair of files of every two
\* descriptors
NoImportFound ==
    \A i \in Indices : \A j \in Indices :
        \A file1 \in Range(commits[i].files) : \A file2 \in Range(commits[j].files) :
            ~has_import_dependency(content, file1, file2)

\* C26 (as stated): when no import dependency is found between any two
\* descriptors, the graph built from the type/scope rules has no cycle, the
\* circular-dependency error is never printed, and every such non-empty list
\* ends with a Plan.
C26_RulesNeverCycle ==
    (N > 0 /\ NoImportFound) =>
        /\ BuildReturned => ~HasCycle(Graph0)
        /\ CircularMessage \notin Range(stderr)
        /\ pc = "exit" => PlanProduced

NoDuplicates(seq) == \A a \in DOMAIN seq : \A b \in DOMAIN seq : seq[a] = seq[b] => a = b

\* every index is in the ready queue or in the result at most once
LoopBound ==
    /\ Len(result) <= N
    /\ NoDuplicates(result \o queue)
    /\ Range(result) \cup Range(queue) \subseteq Indices

\* C28: the sequencer terminates on every list, cyclic or not: no index is
\* queued or emitted twice, so the loop runs at most N times, and the run
\* reaches its exit with an order or with the report of a cycle.
C28_Terminates == [](LoopBound) /\ <>(pc = "exit")

C28_Witness ==
    /\ pc = "exit" /\ N = 3 /\ BuildReturned
    /\ HasCycle(Graph0)
    /\ Len(result) = 1 /\ queue = <<>>

TestMixText == "Tests for multiple unrelated implementations"

\* the concerns reported by the verdict held in `verdict`
ConcernsOf(v) == IF v.metrics = None THEN {} ELSE Range(v.metrics[1].concerns)

\* C22 (as stated): the test/implementation detector fires exactly when a
\* test-type file is present and the scopes of the test-type files differ
\* from the scopes of the other files; the verdict then reports the concern
\* 'Tests for multiple unrelated implementations', and never otherwise.
C22_TestMixReported ==
    (changed # <<>> /\ AnalyzeEnded) =>
        /\ verdict # None
        /\ TestMixText \in ConcernsOf(verdict[1]) <=> TestMix

\* C27 (as stated): analyze returns a verdict for every non-empty change
\* set, those holding a test-type file included.
C27_VerdictForEverySet ==
    (changed # <<>> /\ AnalyzeEnded) => verdict # None

LargeChange(rs) == \E n \in DOMAIN rs : rs[n].text = "Large change"

\* one type, one scope, no mixed concern
SingleUnit ==
    /\ Cardinality(TypesOf(changed)) = 1
    /\ Cardinality(ScopesOf(changed)) = 1
    /\ ~MixedConcern

\* C24: the file-count trigger is strict.  Once the checks of analyze have
\* run, the reason "Large change" is there exactly when the number of changed
\* files exceeds the threshold: not at exactly threshold files, and at
\* threshold + 1.  For a change set of one type, one scope and no mixed
\* concern the verdict is should_split = false at exactly threshold files and
\* true at threshold + 1.
C24_StrictFileCount ==
    /\ (pc \in {"mixed", "return"} /\ changed # <<>>) =>
          /\ LargeChange(reasons) <=> Len(changed) > threshold
          /\ Len(changed) = threshold => ~LargeChange(reasons)
          /\ Len(changed) = threshold + 1 => LargeChange(reasons)
    /\ (Returned /\ changed # <<>> /\ SingleUnit) =>
          /\ Len(changed) = threshold => ~verdict[1].should_split
          /\ Len(changed) = threshold + 1 => verdict[1].should_split
          /\ verdict[1].should_split <=> Len(changed) > threshold

C24_Witness ==
    /\ Returned /\ call = 1 /\ SingleUnit
    /\ threshold = 1 /\ Len(changed) = threshold + 1
    /\ verdict[1].should_split
    /\ verdict[1].reason = <<[text |-> "Large change", args |-> <<2, 1>>]>>

\* the same strictness on the side of the threshold: a verdict for exactly
\* threshold files
C24_AtThreshold ==
    /\ Returned /\ SingleUnit /\ Len(changed) = threshold
    /\ ~verdict[1].should_split

FeatureMixTexts ==
    {"Feature implementation mixed with refactoring",
     "Feature implementation mixed with style changes"}

\* C29: the feature-mix concerns never fire alone.  A verdict that reports
\* 'Feature implementation mixed with refactoring' or '... with style
\* changes', in its metrics or in a "Mixed concerns" reason, also holds the
\* reason "Multiple types detected", and comes before it in no case: the
\* types reason is the first of the verdict.
C29_FeatureMixImpliesTypes ==
    (Returned /\ changed # <<>> /\
        (\/ ConcernsOf(verdict[1]) \cap FeatureMixTexts # {}
         \/ \E n \in DOMAIN verdict[1].reason :
                /\ verdict[1].reason[n].text = "Mixed concerns"
                /\ Range(verdict[1].reason[n].args) \cap FeatureMixTexts # {})) =>
        /\ verdict[1].should_split
        /\ ReasonTexts(verdict[1])[1] = "Multiple types detected"
        /\ {"feat"} \subseteq Range(verdict[1].reason[1].args)
        /\ Range(verdict[1].reason[1].args) \cap {"refactor", "style"} # {}

C29_Witness ==
    /\ Returned /\ call = 1
    /\ Range(changed) = {F_login, F_api_x}
    /\ ConcernsOf(verdict[1]) = {"Feature implementation mixed with refactoring"}
    /\ ReasonTexts(verdict[1])
          = <<"Multiple types detected", "Multiple scopes detected", "Mixed concerns">>

RECURSIVE SumCounts(_)
SumCounts(cs) == IF cs = <<>> THEN 0 ELSE cs[1].count + SumCounts(Tail(cs))

\* the number of changed files that f maps to key
Tally(f(_), key) == Cardinality({k \in DOMAIN changed : f(changed[k]) = key})

\* C30: in the metrics of a verdict returned by a fresh analyzer for a
\* non-empty change set, the type counts and the scope counts each add up to
\* file_count, the number of changed files; types_detected and
\* scopes_detected are the keys of the counts, each once, and they are
\* exactly the types and scopes that some changed file has, each counted with
\* the number of its files.
C30_MetricsAddUp ==
    (Returned /\ call = 1 /\ changed # <<>>) =>
        LET m == verdict[1].metrics[1] IN
        /\ m.file_count = Len(changed)
        /\ SumCounts(m.type_counts) = m.file_count
        /\ SumCounts(m.scope_counts) = m.file_count
        /\ m.types_detected = [n \in DOMAIN m.type_counts |-> m.type_counts[n].key]
        /\ m.scopes_detected = [n \in DOMAIN m.scope_counts |-> m.scope_counts[n].key]
        /\ NoDuplicates(m.types_detected) /\ NoDuplicates(m.scopes_detected)
        /\ Range(m.types_detected) = TypesOf(changed)
        /\ Range(m.scopes_detected) = ScopesOf(changed)
        /\ \A n \in DOMAIN m.type_counts :
              /\ m.type_counts[n].count > 0
              /\ m.type_counts[n].count = Tally(TypeOf, m.type_counts[n].key)
        /\ \A n \in DOMAIN m.scope_counts :
              /\ m.scope_counts[n].count > 0
              /\ m.scope_counts[n].count = Tally(extract_scope_from_path, m.scope_counts[n].key)

C30_Witness ==
    /\ Returned /\ call = 1
    /\ Range(changed) = {F_auth_a, F_auth_b, F_readme}
    /\ verdict[1].metrics[1].file_count = 3
    /\ Range(verdict[1].metrics[1].type_counts)
          = {[key |-> "chore", count |-> 2], [key |-> "docs", count |-> 1]}

HasSuffix(str, suffix) ==
    Len(suffix) <= Len(str) /\ SubSeq(str, Len(str) - Len(suffix) + 1, Len(str)) = suffix

HasInfix(str, infix) ==
    \E k \in 1..(Len(str) - Len(infix) + 1) : SubSeq(str, k, k + Len(infix) - 1) = infix

\* the path rules as the specification words them
DocExtension(path) == \E e \in {<<".","m","d">>, <<".","t","x","t">>, <<".","r","s","t">>, <<".","a","d","o","c">>} : HasSuffix(path, e)

TestMarker(path) ==
    \E m \in {<<"t","e","s","t","/">>, <<"t","e","s","t","s","/">>, <<"s","p","e","c","/">>, <<"_","_","t","e","s","t","s","_","_">>, <<".","t","e","s","t",".">>, <<".","s","p","e","c",".">>} :
        HasInfix(path, m)

CiMarker(path) ==
    \E m \in {<<".","g","i","t","h","u","b","/">>, <<".","g","i","t","l","a","b","-","c","i">>, <<"j","e","n","k","i","n","s">>, <<".","c","i","r","c","l","e","c","i">>} : HasInfix(path, m)

ManifestName(path) ==
    \E f \in {<<"p","a","c","k","a","g","e",".","j","s","o","n">>, <<"p","o","m",".","x","m","l">>, <<"b","u","i","l","d",".","g","r","a","d","l","e">>, <<"M","a","k","e","f","i","l","e">>, <<"C","M","a","k","e","L","i","s","t","s",".","t","x","t">>} :
        HasSuffix(path, f)

\* the loop of analyze has filed the one changed file
Filed == changed # <<>> /\ self_types # <<>> /\ self_scopes # <<>>

\* C23: type inference applies the path rules in a fixed precedence before
\* it looks at the diff.  Whatever the diff, a file with a documentation
\* extension is docs; otherwise one with a test marker in its path is test;
\* otherwise one with a CI marker is ci; otherwise one named as a dependency
\* manifest is build; only a file under none of the rules gets a type from
\* its diff.  So tests/e2e.md is docs and .github/test/a.yml is test.
C23_PathRulesFirst ==
    Filed =>
        LET path == changed[1]
            type == self_types[1].key
        IN /\ Len(self_types) = 1
           /\ DocExtension(path) => type = "docs"
           /\ (~DocExtension(path) /\ TestMarker(path)) => type = "test"
           /\ (~DocExtension(path) /\ ~TestMarker(path) /\ CiMarker(path)) => type = "ci"
           /\ (~DocExtension(path) /\ ~TestMarker(path) /\ ~CiMarker(path)
                 /\ ManifestName(path)) => type = "build"
           /\ (~DocExtension(path) /\ ~TestMarker(path) /\ ~CiMarker(path)
                 /\ ~ManifestName(path)) =>
                 /\ type \in {"chore", "feat", "fix", "refactor", "perf", "style"}
                 /\ diffs[path] = <<>> => type = "chore"
           /\ path = P_tests_e2e_md => type = "docs"
           /\ path = P_github_test_yml => type = "test"

C23_Witness ==
    /\ Filed /\ call = 1 /\ pc = "checks"
    /\ changed = <<P_tests_e2e_md>>
    /\ diffs[P_tests_e2e_md] = D_login
    /\ self_types = <<[key |-> "docs", files |-> <<P_tests_e2e_md>>]>>

Containers == {<<"s","r","c">>, <<"l","i","b">>, <<"a","p","p">>, <<"p","a","c","k","a","g","e","s">>, <<"t","e","s","t","s">>, <<"t","e","s","t">>}

\* C25: the scope of a file is its first path segment that is neither a
\* container directory (src, lib, app, packages, tests, test) nor '.' nor
\* '..', with everything from its first '.' on removed; when every segment
\* is skipped the scope is 'root'.  src/auth/login.ts and
\* src/auth/login.test.ts both have scope 'auth'.
C25_ScopeOfPath ==
    Filed =>
        LET segments == Split(changed[1], "/")
            kept == {n \in DOMAIN segments :
                        /\ segments[n] \notin Containers
                        /\ segments[n] \notin {<<".">>, <<".", ".">>}}
            scope == self_scopes[1].key
        IN /\ Len(self_scopes) = 1
           /\ kept = {} => scope = S_root
           /\ kept # {} =>
                 LET segment == segments[CHOOSE n \in kept : \A m \in kept : n <= m]
                 IN /\ Len(scope) <= Len(segment)
                    /\ scope = SubSeq(segment, 1, Len(scope))
                    /\ "." \notin Range(scope)
                    /\ Len(scope) < Len(segment) => segment[Len(scope) + 1] = "."
           /\ changed[1] \in {F_login, F_login_test} => scope = S_auth

C25_Witness ==
    /\ Filed /\ call = 1 /\ pc = "checks"
    /\ changed = <<P_dot_lib_db>>
    /\ self_scopes = <<[key |-> <<"d", "b">>, files |-> <<P_dot_lib_db>>]>>

\* a path whose every segment is skipped
C25_RootScope ==
    /\ Filed /\ changed = <<P_up_app>>
    /\ self_scopes[1].key = S_root

====
